---- MODULE Spec2Model ----
(***************************************************************************)
(* The RESTful posting engine of weewx (bin/weecore/restx.py): one         *)
(* controlling service that puts records into a Queue.Queue and one        *)
(* posting thread (RESTThread) that runs run_loop over that queue.         *)
(***************************************************************************)
EXTENDS Integers, Sequences, FiniteSets, TLC

(* ------------------------------ bounds ---------------------------------- *)
\* number of records the controlling service enqueues in one behaviour
MaxRecords == 2
\* largest max_tries option that is tried
MaxTries == 2
\* wall clock: its start, the amount one Tick adds and where Tick stops
StartTime == 3600
TickLen == 1800
MaxNow == 5400
\* number of records put before skip_this_post in the gate specification
MaxGateCalls == 3
\* records followed through get_record
MaxEnriched == 1
\* LOOP packets handed to the rapidfire queue
MaxPackets == 2

(* ------------------------- program constants ---------------------------- *)
\* Python's None, for the optional settings stale and post_interval
None == -1
\* sys.maxint, the default of max_backlog
Maxint == 2147483647
\* Queue.Queue(): maxsize 0, a queue without an upper bound
QueueMaxsize == 0
\* t.join(20.0)
JoinTimeout == 20
\* retry_wait, the pause after a failed upload attempt
RetryWait == 5

\* mutant: the pause after a BadLogin is the pause between retries
BadLoginWaitShort == RetryWait

\* time.sleep(3600) after a BadLogin
BadLoginWait == 3600

(* ---------------------- option values that are tried -------------------- *)
BacklogSet == {0, 1, Maxint}
TriesSet == 0..MaxTries
StaleSet == {None, 1800}
IntervalSet == {None, 3600}
\* the dateTime values records carry
RecTimes == {1800, 3600}
\* post_interval and dateTime values of the gate specification
GateIntervalSet == IntervalSet \cup {1800}
GateTimes == {900, 1800, 3600, 5400, 7200}

(* ------------------------------ work items ------------------------------ *)
\* the None item that tells the thread to exit
Stop == [kind |-> "stop", id |-> 0, dateTime |-> 0]
\* a record, numbered by its position in the enqueue order
Rec(n, t) == [kind |-> "record", id |-> n, dateTime |-> t]

\* what one call of post_request followed by check_response can give
TransportOutcomes == {"ok", "badcode", "urlerror", "badlogin", "failline", "other"}
\* an attempt that post_with_retries answers with a retry
Retryable == {"badcode", "urlerror"}
\* what get_record / to_US / format_url can give
EnrichOutcomes == {"ok", "ValueError"}

\* the fields get_record adds, in the order it adds them
RainFields == {"hourRain", "rain24", "dayRain"}
RainOrder == <<"hourRain", "rain24", "dayRain">>
\* a key the dictionary does not have
Absent == -2
\* weecore.US and weecore.METRIC
UnitSystems == {1, 16}
\* a record as get_record sees it: the three rain fields and usUnits
RainValues == {Absent, None, 5}
Records == [hourRain : RainValues, rain24 : RainValues, dayRain : RainValues,
            usUnits : UnitSystems]
NoRecord == [hourRain |-> Absent, rain24 |-> Absent, dayRain |-> Absent, usUnits |-> 1]
\* archive.getSql: weedb.OperationalError, None, or (SUM, MIN(usUnits), MAX(usUnits))
NoRow == [kind |-> "none", sum |-> None, mn |-> None, mx |-> None]
SqlError == [kind |-> "OperationalError", sum |-> None, mn |-> None, mx |-> None]
SqlResults ==
    {NoRow, SqlError,
     [kind |-> "row", sum |-> None, mn |-> 1, mx |-> 16],
     [kind |-> "row", sum |-> 7, mn |-> 1, mx |-> 1],
     [kind |-> "row", sum |-> 7, mn |-> 1, mx |-> 16]}

\* keys of AmbientThread._formats followed here, and the parameter each gives
FormatKeys == {"dateTime", "barometer", "outTemp", "hourRain", "realtime"}
FormatName ==
    [k \in FormatKeys |->
        CASE k = "dateTime" -> "dateutc"
          [] k = "barometer" -> "baromin"
          [] k = "outTemp" -> "tempf"
          [] k = "hourRain" -> "rainin"
          [] k = "realtime" -> "realtime"]
\* keys a record can have: those and one that _formats does not list
RecordKeys == FormatKeys \cup {"inTemp"}
\* a key is missing, is None, or has a value
UrlValues == {Absent, None, 0}
\* the pieces of a query string: a piece of text, or a number as formatted
Text(s) == [text |-> s, num |-> None]
Number(v) == [text |-> "", num |-> v]

VARIABLES
    queue,           \* Queue.Queue: the items put and not yet got
    nEnq,            \* records put so far
    stopPut,         \* number of None items put by shutDown_thread
    shutdownCalled,  \* shutDown has run
    pc,              \* where the posting thread is
    held,            \* _record of run_loop
    lastpost,        \* self.lastpost
    count,           \* _count of post_with_retries
    attempts,        \* outcomes of the attempts of the current post_with_retries
    fault,           \* the exception process_record ended with, "none" if it returned
    now,             \* time.time()
    wake,            \* when the current time.sleep ends
    max_backlog, max_tries, stale, post_interval,
    iterDepth,       \* qsize() just before the first get of the current iteration
    iterPut,         \* items put before the first get of the current iteration
    iterDiscards,    \* items thrown away by the backlog check in this iteration
    discarded,       \* ids thrown away by the backlog check
    skipped,         \* ids skipped by skip_this_post
    dispatched,      \* ids passed to process_record, in order
    results,         \* how each process_record call ended, in order
    inflight,        \* ids inside process_record
    formatted,       \* ids for which a request was built
    posted,          \* ids for which post_request was called
    critical,        \* ids whose process_record ended in the LOG_CRIT messages
    accepted,        \* dateTime of the records skip_this_post let through, in order
    sleeps,          \* time.sleep(retry_wait) calls of the current post_with_retries
    sleepStart,      \* time.time() when the current time.sleep began
    \* a second destination: its own queue and its own RESTThread
    queueB,          \* its Queue.Queue
    nEnqB,           \* records put into it so far
    pcB,             \* where its thread is
    heldB,           \* _record of its run_loop
    lastpostB,       \* its self.lastpost
    dispatchedB,     \* ids it has passed to process_record, in order
    wakeB,           \* when its time.sleep ends
    \* StdRESTful.shutDown, call by call
    sd,              \* where shutDown is
    unable,          \* threads reported by "Unable to shut down ... thread"
    joinStart,       \* time.time() when the current t.join(20.0) began
    \* a service object (StdWunderground, StdCWOP, StdAWEKAS) being constructed
    svc,             \* which class
    section,         \* config_dict['StdRESTful'][...] exists
    keys,            \* option names present in that section
    prefixOk,        \* the CWOP station name matches valid_prefix_re
    rapidfire,       \* the rapidfire option, False if absent
    archive_post,    \* the archive_post option: "unset", "true" or "false"
    built,           \* "new", then how __init__ ended
    queues,          \* which of archive_queue / loop_queue exist
    threads,         \* which threads were started
    bound,           \* events a callback was bound to
    events,          \* events the engine has dispatched since
    puts,            \* queue.put calls made by the callbacks
    server_url,      \* the server_url each thread was created with
    \* get_record, call by call
    record,          \* the record passed in, as the caller sees it afterwards
    recIn,           \* the record as it was when get_record was called
    qres,            \* what archive.getSql gives for each of the three queries
    asked,           \* the fields archive.getSql was called for
    datadict,        \* _datadict when get_record ends
    enrichStatus,    \* how get_record ended
    \* RESTThread.run
    database,        \* self.database_dict is not None
    thread,          \* "created", "running" (inside run) or "ended"
    archive,         \* the archive connection: "none", "open" or "closed"
    opens,           \* calls of manager_cls.open
    escaped,         \* run_loop was left by an exception
    \* CWOPThread.send_packet, attempt by attempt
    nServers,        \* len(self.server_list)
    srv,             \* position of _serv_addr_str in server_list, from 1
    cnt,             \* _count
    tries,           \* the attempts made, in order: server, _count, outcome
    cwStatus,        \* "idle", "running", or how send_packet ended
    \* AmbientThread.format_url, key by key
    urlRec,          \* the record passed to format_url
    liststr,         \* _liststr
    visited,         \* the keys of _formats the for loop has been through
    query,           \* _urlquery, as the sequence of its tokens
    urlStatus,       \* "idle", "loop" or "done"
    \* AWEKASThread.get_record
    rrRes,           \* what archive.getSql gives for the rainRate query
    rainRate,        \* r['rainRate'] when get_record ends
    awStatus,        \* how AWEKASThread.get_record ended
    \* WOWThread.post_request
    urlopen,         \* what the last call of urllib2.urlopen gave
    \* what run_loop writes to the system log
    log_success,     \* self.log_success
    log_failure,     \* self.log_failure
    syslog,          \* the outcome messages written, in order
    \* one pass of send_packet's inner loop, call by call
    phase,           \* the call that comes next: "connect", "login", "packet", "finally", "except"
    sock,            \* _sock: "none", "open" or "closed"
    pending,         \* the return or exception on its way out of the try blocks
    recvFailed       \* sock.recv raised IOError in this pass

vars == <<queue, nEnq, stopPut, shutdownCalled, pc, held, lastpost, count,
          attempts, fault, now, wake, max_backlog, max_tries, stale,
          post_interval, iterDepth, iterPut, iterDiscards, discarded, skipped,
          dispatched, results, inflight, formatted, posted, critical, accepted,
          sleeps, sleepStart,
          queueB, nEnqB, pcB, heldB, lastpostB, dispatchedB, wakeB,
          sd, unable, joinStart,
          svc, section, keys, prefixOk, rapidfire, archive_post, built, queues,
          threads, bound, events, puts, server_url,
          record, recIn, qres, asked, datadict, enrichStatus,
          database, thread, archive, opens, escaped,
          nServers, srv, cnt, tries, cwStatus,
          urlRec, liststr, visited, query, urlStatus,
          rrRes, rainRate, awStatus,
          urlopen,
          log_success, log_failure, syslog,
          phase, sock, pending, recvFailed>>

shut == <<sd, unable, joinStart>>
ctor == <<svc, section, keys, prefixOk, rapidfire, archive_post, built, queues,
          threads, bound, events, puts, server_url>>
enrich == <<record, recIn, qres, asked, datadict, enrichStatus>>
run == <<database, thread, archive, opens, escaped>>
cwop == <<nServers, srv, cnt, tries, cwStatus>>
url == <<urlRec, liststr, visited, query, urlStatus>>
awekas == <<rrRes, rainRate, awStatus>>
wow == <<urlopen>>
logs == <<log_success, log_failure, syslog>>
socks == <<phase, sock, pending, recvFailed>>
others == <<shut, ctor, enrich, run, cwop, url, awekas, wow, logs, socks>>
notShut == <<ctor, enrich, run, cwop, url, awekas, wow, logs, socks>>
notCtor == <<shut, enrich, run, cwop, url, awekas, wow, logs, socks>>
notEnrich == <<shut, ctor, run, cwop, url, awekas, wow, logs, socks>>
notRun == <<shut, ctor, enrich, cwop, url, awekas, wow, logs, socks>>
notCwop == <<shut, ctor, enrich, run, url, awekas, wow, logs, socks>>
notUrl == <<shut, ctor, enrich, run, cwop, awekas, wow, logs, socks>>
notAwekas == <<shut, ctor, enrich, run, cwop, url, wow, logs, socks>>
notWow == <<shut, ctor, enrich, run, cwop, url, awekas, logs, socks>>
notLogs == <<shut, ctor, enrich, run, cwop, url, awekas, wow, socks>>
notSocks == <<shut, ctor, enrich, run, cwop, url, awekas, wow, logs>>

\* the archive thread, its queue and its callbacks
destA == <<queue, nEnq, stopPut, shutdownCalled, pc, held, lastpost, count,
           attempts, fault, wake, max_backlog, max_tries, stale,
           post_interval, iterDepth, iterPut, iterDiscards, discarded, skipped,
           dispatched, results, inflight, formatted, posted, critical, accepted,
           sleeps, sleepStart>>

destB == <<queueB, nEnqB, pcB, heldB, lastpostB, dispatchedB, wakeB>>

config == <<max_backlog, max_tries, stale, post_interval>>
history == <<discarded, skipped, dispatched, results, inflight, formatted, posted,
              critical, accepted>>
iter == <<iterDepth, iterPut, iterDiscards>>

\* items put into the queue so far
nPut == nEnq + stopPut

Max(a, b) == IF a >= b THEN a ELSE b

(* --------------------------- pure functions ----------------------------- *)
\* mutant: the newest item comes out first
QGetLast(q) == q[Len(q)]

\* Queue.get: the item that comes out
QGet(q) == Head(q)

\* mutant: the None item is taken for a record
IsStopNever(r) == FALSE

\* run_loop's test "_record is None"
IsStop(r) == r = Stop

\* mutant: put waits while anything is queued beyond maxsize
PutBlocksWhenBehind(q, maxsize) == Len(q) >= maxsize + 1

\* Queue.put: TRUE while the caller has to wait for room
PutBlocks(q, maxsize) == maxsize > 0 /\ Len(q) >= maxsize

\* mutant: the None item is not counted
QSizeRecordsOnly(q) == Cardinality({i \in DOMAIN q : q[i].kind = "record"})

\* Queue.qsize
QSize(q) == Len(q)

\* mutant: a record exactly stale seconds old is stale already
IsStaleInclusive(time_ts, t, st) == st # None /\ t - time_ts >= st

\* mutant: the test for None is missing
IsStaleNoneIsNumber(time_ts, t, st) == t - time_ts > st

\* the staleness check of skip_this_post
IsStale(time_ts, t, st) == st # None /\ t - time_ts > st

\* mutant: the time of the last post is left out
TooSoonNoLastpost(time_ts, lp, pi) == pi # None /\ time_ts < pi

\* mutant: the distance to the last post is taken without its sign
TooSoonMagnitude(time_ts, lp, pi) ==
    pi # None /\ (IF time_ts >= lp THEN time_ts - lp ELSE lp - time_ts) < pi

\* the post_interval check of skip_this_post
TooSoon(time_ts, lp, pi) == pi # None /\ time_ts - lp < pi

\* skip_this_post's return value
SkipThisPost(time_ts, t, lp, st, pi) == IsStale(time_ts, t, st) \/ TooSoon(time_ts, lp, pi)

\* mutant: the queue must be strictly below max_backlog
BacklogOkStrict(q, mb) == QSize(q) < mb

\* mutant: one item more than max_backlog may stay queued
BacklogOkCountsHeld(q, mb) == QSize(q) - 1 <= mb

\* the backlog test of run_loop: TRUE when the held record is kept
BacklogOk(q, mb) == QSize(q) <= mb

\* mutant: one attempt too many
MoreTriesOffByOne(c, mt) == c <= mt

\* post_with_retries' for loop: TRUE while another attempt is made
MoreTries(c, mt) == c < mt

\* mutant: no return after a good response
AfterAttemptOkRetries(o) ==
    CASE o = "ok" -> [pc |-> "retrysleep", fault |-> "none"]
      [] o \in Retryable -> [pc |-> "retrysleep", fault |-> "none"]
      [] o = "badlogin" -> [pc |-> "classify", fault |-> "BadLogin"]
      [] o = "failline" -> [pc |-> "classify", fault |-> "FailedPost"]
      [] OTHER -> [pc |-> "classify", fault |-> "Unexpected"]

\* mutant: BadLogin is caught with the transport faults and retried
AfterAttemptBadLoginRetries(o) ==
    CASE o = "ok" -> [pc |-> "classify", fault |-> "none"]
      [] o \in Retryable -> [pc |-> "retrysleep", fault |-> "none"]
      [] o = "badlogin" -> [pc |-> "retrysleep", fault |-> "none"]
      [] o = "failline" -> [pc |-> "classify", fault |-> "FailedPost"]
      [] OTHER -> [pc |-> "classify", fault |-> "Unexpected"]

\* mutant: FailedPost, an IOError, is caught with the transport faults
AfterAttemptFailedPostRetries(o) ==
    CASE o = "ok" -> [pc |-> "classify", fault |-> "none"]
      [] o \in Retryable -> [pc |-> "retrysleep", fault |-> "none"]
      [] o = "badlogin" -> [pc |-> "classify", fault |-> "BadLogin"]
      [] o = "failline" -> [pc |-> "retrysleep", fault |-> "none"]
      [] OTHER -> [pc |-> "classify", fault |-> "Unexpected"]

\* where post_with_retries goes after one attempt
AfterAttempt(o) ==
    CASE o = "ok" -> [pc |-> "classify", fault |-> "none"]
      [] o \in Retryable -> [pc |-> "retrysleep", fault |-> "none"]
      [] o = "badlogin" -> [pc |-> "classify", fault |-> "BadLogin"]
      [] o = "failline" -> [pc |-> "classify", fault |-> "FailedPost"]
      [] OTHER -> [pc |-> "classify", fault |-> "Unexpected"]

\* mutant: BadLogin falls into the general except clause
CatchBadLoginExits(f) ==
    CASE f = "FailedPost" -> "waiting"
      [] f = "none" -> "waiting"
      [] OTHER -> "stopped"

\* mutant: a failed record is taken up again
CatchFailedPostRetries(f) ==
    CASE f = "BadLogin" -> "cooldown"
      [] f = "FailedPost" -> "gated"
      [] f = "none" -> "waiting"
      [] OTHER -> "stopped"

\* mutant: an unknown exception is swallowed and the loop goes on
CatchUnexpectedContinues(f) ==
    CASE f = "BadLogin" -> "cooldown"
      [] OTHER -> "waiting"

\* run_loop's try/except/else around process_record
Catch(f) ==
    CASE f = "BadLogin" -> "cooldown"
      [] f = "FailedPost" -> "waiting"
      [] f = "none" -> "waiting"
      [] OTHER -> "stopped"

(* ------------------------------ initial state --------------------------- *)
\* no service object is under construction
CtorIdle ==
    /\ svc = "none"
    /\ section = FALSE
    /\ keys = {}
    /\ prefixOk = FALSE
    /\ rapidfire = FALSE
    /\ archive_post = "unset"
    /\ built = "new"
    /\ queues = {}
    /\ threads = {}
    /\ bound = {}
    /\ events = 0
    /\ puts = 0
    /\ server_url = [t \in {"archive", "loop"} |-> "none"]

\* run has opened the archive and is inside run_loop
RunIdle ==
    /\ database = TRUE
    /\ thread = "running"
    /\ archive = "open"
    /\ opens = 1
    /\ escaped = FALSE

\* format_url has not been called
UrlIdle ==
    /\ urlRec = [k \in RecordKeys |-> Absent]
    /\ liststr = <<>>
    /\ visited = {}
    /\ query = <<>>
    /\ urlStatus = "idle"

\* send_packet has not been called
CwopIdle ==
    /\ nServers = 0
    /\ srv = 0
    /\ cnt = 0
    /\ tries = <<>>
    /\ cwStatus = "idle"

\* AWEKASThread.get_record has not been called
AwekasIdle ==
    /\ rrRes = NoRow
    /\ rainRate = Absent
    /\ awStatus = "none"

\* WOWThread.post_request has not been called
WowIdle == urlopen = [kind |-> "none", code |-> 0]

\* the flags have their defaults and nothing was written
LogIdle ==
    /\ log_success = TRUE
    /\ log_failure = TRUE
    /\ syslog = <<>>

\* no pass of send_packet has begun
SockIdle ==
    /\ phase = "connect"
    /\ sock = "none"
    /\ pending = "none"
    /\ recvFailed = FALSE

\* get_record has not been called
EnrichIdle ==
    /\ record = NoRecord
    /\ recIn = NoRecord
    /\ qres = [f \in RainFields |-> NoRow]
    /\ asked = {}
    /\ datadict = NoRecord
    /\ enrichStatus = "none"

\* the threads as RESTThread.__init__ leaves them, queues empty
MainInit ==
    /\ queue = <<>>
    /\ nEnq = 0
    /\ stopPut = 0
    /\ shutdownCalled = FALSE
    /\ pc = "waiting"
    /\ held = Stop
    /\ lastpost = 0
    /\ count = 0
    /\ attempts = <<>>
    /\ fault = "none"
    /\ now = StartTime
    /\ wake = 0
    /\ max_backlog \in BacklogSet
    /\ max_tries \in TriesSet
    /\ stale \in StaleSet
    /\ post_interval \in IntervalSet
    /\ iterDepth = 0
    /\ iterPut = 0
    /\ iterDiscards = 0
    /\ discarded = {}
    /\ skipped = {}
    /\ dispatched = <<>>
    /\ results = <<>>
    /\ inflight = {}
    /\ formatted = {}
    /\ posted = {}
    /\ critical = {}
    /\ accepted = <<>>
    /\ sleeps = 0
    /\ sleepStart = 0
    /\ queueB = <<>>
    /\ nEnqB = 0
    /\ pcB = "waiting"
    /\ heldB = Stop
    /\ lastpostB = 0
    /\ dispatchedB = <<>>
    /\ wakeB = 0
    /\ sd = "idle"
    /\ unable = {}
    /\ joinStart = 0

Init ==
    /\ MainInit
    /\ CtorIdle
    /\ RunIdle
    /\ SockIdle
    /\ LogIdle
    /\ WowIdle
    /\ AwekasIdle
    /\ UrlIdle
    /\ CwopIdle
    /\ EnrichIdle

(* ------------------------- controlling service -------------------------- *)
\* mutant: the callback puts nothing once the thread has ended
EnqueueWhileAlive ==
    /\ pc # "stopped"
    /\ nEnq < MaxRecords
    /\ ~PutBlocks(queue, QueueMaxsize)
    /\ \E t \in RecTimes :
          queue' = Append(queue, Rec(nEnq + 1, t))
    /\ nEnq' = nEnq + 1
    /\ UNCHANGED <<stopPut, shutdownCalled, pc, held, lastpost, count, attempts,
                   fault, now, wake, config, iter, history, sleeps, sleepStart>>
    /\ UNCHANGED destB
    /\ UNCHANGED others

\* new_archive_record / new_loop_packet: queue.put(event.record)
Enqueue ==
    /\ nEnq < MaxRecords
    /\ ~PutBlocks(queue, QueueMaxsize)
    /\ \E t \in RecTimes :
          queue' = Append(queue, Rec(nEnq + 1, t))
    /\ nEnq' = nEnq + 1
    /\ UNCHANGED <<stopPut, shutdownCalled, pc, held, lastpost, count, attempts,
                   fault, now, wake, config, iter, history, sleeps, sleepStart>>
    /\ UNCHANGED destB
    /\ UNCHANGED others

\* shutDown / shutDown_thread: put a None for every thread that is alive
ShutDown ==
    /\ ~shutdownCalled
    /\ pc # "stopped" => ~PutBlocks(queue, QueueMaxsize)
    /\ pcB # "stopped" => ~PutBlocks(queueB, QueueMaxsize)
    /\ shutdownCalled' = TRUE
    /\ IF pc # "stopped"
          THEN /\ queue' = Append(queue, Stop)
               /\ stopPut' = stopPut + 1
          ELSE UNCHANGED <<queue, stopPut>>
    /\ queueB' = IF pcB # "stopped" THEN Append(queueB, Stop) ELSE queueB
    /\ UNCHANGED <<nEnq, pc, held, lastpost, count, attempts, fault, now, wake,
                   config, iter, history, sleeps, sleepStart>>
    /\ UNCHANGED <<nEnqB, pcB, heldB, lastpostB, dispatchedB, wakeB>>
    /\ UNCHANGED others

\* the wall clock moves on
Tick ==
    /\ now < MaxNow
    /\ now' = now + TickLen
    /\ UNCHANGED <<queue, nEnq, stopPut, shutdownCalled, pc, held, lastpost,
                   count, attempts, fault, wake, config, iter, history, sleeps,
                   sleepStart>>
    /\ UNCHANGED destB
    /\ UNCHANGED others

(* ----------------------------- posting thread --------------------------- *)
\* _record = self.queue.get(); if _record is None: return
Get ==
    /\ pc \in {"waiting", "trimwait"}
    /\ queue # <<>>
    /\ held' = QGet(queue)
    /\ queue' = Tail(queue)
    /\ pc' = IF IsStop(QGet(queue)) THEN "stopped" ELSE "backlog"
    /\ IF pc = "waiting"
          THEN /\ iterDepth' = QSize(queue)
               /\ iterPut' = nPut
               /\ iterDiscards' = 0
          ELSE UNCHANGED iter
    /\ UNCHANGED <<nEnq, stopPut, shutdownCalled, lastpost, count, attempts,
                   fault, now, wake, config, history, sleeps, sleepStart>>
    /\ UNCHANGED destB
    /\ UNCHANGED others

\* if self.queue.qsize() <= self.max_backlog: break  (else go round and get again)
BacklogCheck ==
    /\ pc = "backlog"
    /\ IF BacklogOk(queue, max_backlog)
          THEN /\ pc' = "gated"
               /\ UNCHANGED <<discarded, iterDiscards>>
          ELSE /\ pc' = "trimwait"
               /\ discarded' = discarded \cup {held.id}
               /\ iterDiscards' = iterDiscards + 1
    /\ UNCHANGED <<queue, nEnq, stopPut, shutdownCalled, held, lastpost, count,
                   attempts, fault, now, wake, config, iterDepth, iterPut,
                   skipped, dispatched, results, inflight, formatted, posted,
                   critical, accepted, sleeps, sleepStart>>
    /\ UNCHANGED destB
    /\ UNCHANGED others

\* mutant: lastpost is set before the checks, so a skipped record moves it too
GateSkipAdvances ==
    /\ pc = "gated"
    /\ lastpost' = held.dateTime
    /\ IF SkipThisPost(held.dateTime, now, lastpost, stale, post_interval)
          THEN /\ pc' = "waiting"
               /\ skipped' = skipped \cup {held.id}
               /\ UNCHANGED <<dispatched, inflight, accepted>>
          ELSE /\ pc' = "process"
               /\ dispatched' = Append(dispatched, held.id)
               /\ inflight' = inflight \cup {held.id}
               /\ accepted' = Append(accepted, held.dateTime)
               /\ UNCHANGED skipped
    /\ UNCHANGED <<queue, nEnq, stopPut, shutdownCalled, held, count, attempts,
                   fault, now, wake, config, iter, discarded, results,
                   formatted, posted, critical, sleeps, sleepStart>>
    /\ UNCHANGED destB
    /\ UNCHANGED others

\* mutant: lastpost is one attribute shared by every thread of the class
GateSharedLastpost ==
    /\ pc = "gated"
    /\ IF SkipThisPost(held.dateTime, now, lastpost, stale, post_interval)
          THEN /\ pc' = "waiting"
               /\ skipped' = skipped \cup {held.id}
               /\ UNCHANGED <<lastpost, lastpostB, dispatched, inflight, accepted>>
          ELSE /\ pc' = "process"
               /\ lastpost' = held.dateTime
               /\ lastpostB' = held.dateTime
               /\ dispatched' = Append(dispatched, held.id)
               /\ inflight' = inflight \cup {held.id}
               /\ accepted' = Append(accepted, held.dateTime)
               /\ UNCHANGED skipped
    /\ UNCHANGED <<queue, nEnq, stopPut, shutdownCalled, held, count, attempts,
                   fault, now, wake, config, iter, discarded, results,
                   formatted, posted, critical, sleeps, sleepStart>>
    /\ UNCHANGED <<queueB, nEnqB, pcB, heldB, dispatchedB, wakeB>>
    /\ UNCHANGED others

\* if self.skip_this_post(_record['dateTime']): continue ; else call process_record
Gate ==
    /\ pc = "gated"
    /\ IF SkipThisPost(held.dateTime, now, lastpost, stale, post_interval)
          THEN /\ pc' = "waiting"
               /\ skipped' = skipped \cup {held.id}
               /\ UNCHANGED <<lastpost, dispatched, inflight, accepted>>
          ELSE /\ pc' = "process"
               /\ lastpost' = held.dateTime
               /\ dispatched' = Append(dispatched, held.id)
               /\ inflight' = inflight \cup {held.id}
               /\ accepted' = Append(accepted, held.dateTime)
               /\ UNCHANGED skipped
    /\ UNCHANGED <<queue, nEnq, stopPut, shutdownCalled, held, count, attempts,
                   fault, now, wake, config, iter, discarded, results,
                   formatted, posted, critical, sleeps, sleepStart>>
    /\ UNCHANGED destB
    /\ UNCHANGED others

\* process_record up to the call of post_with_retries
ProcessRecord ==
    /\ pc = "process"
    /\ \E r \in EnrichOutcomes :
          IF r = "ok"
             THEN /\ pc' = "post"
                  /\ formatted' = formatted \cup {held.id}
                  /\ UNCHANGED fault
             ELSE /\ pc' = "classify"
                  /\ fault' = "Unexpected"
                  /\ UNCHANGED formatted
    /\ count' = 0
    /\ attempts' = <<>>
    /\ sleeps' = 0
    /\ UNCHANGED <<queue, nEnq, stopPut, shutdownCalled, held, lastpost, now,
                   wake, config, iter, discarded, skipped, dispatched, results,
                   inflight, posted, critical, accepted, sleepStart>>
    /\ UNCHANGED destB
    /\ UNCHANGED others

\* one pass of post_with_retries' loop body: post_request, then check_response
PostAttempt ==
    /\ pc = "post"
    /\ MoreTries(count, max_tries)
    /\ \E o \in TransportOutcomes :
          /\ attempts' = Append(attempts, o)
          /\ pc' = AfterAttempt(o).pc
          /\ fault' = AfterAttempt(o).fault
          /\ IF o \in Retryable
                THEN /\ wake' = now + RetryWait
                     /\ sleepStart' = now
                ELSE UNCHANGED <<wake, sleepStart>>
    /\ posted' = posted \cup {held.id}
    /\ UNCHANGED <<queue, nEnq, stopPut, shutdownCalled, held, lastpost, count,
                   now, config, iter, discarded, skipped, dispatched, results,
                   inflight, formatted, critical, accepted, sleeps>>
    /\ UNCHANGED destB
    /\ UNCHANGED others

\* mutant: no pause after the last attempt
RetrySleepNotAfterLast ==
    /\ pc = "retrysleep"
    /\ now' = IF MoreTries(count + 1, max_tries) THEN Max(now, wake) ELSE now
    /\ count' = count + 1
    /\ sleeps' = IF MoreTries(count + 1, max_tries) THEN sleeps + 1 ELSE sleeps
    /\ pc' = "post"
    /\ wake' = 0
    /\ sleepStart' = 0
    /\ UNCHANGED <<queue, nEnq, stopPut, shutdownCalled, held, lastpost,
                   attempts, fault, config, iter, history>>
    /\ UNCHANGED destB
    /\ UNCHANGED others

\* time.sleep(self.retry_wait) returns and the for loop steps
RetrySleep ==
    /\ pc = "retrysleep"
    /\ now' = Max(now, wake)
    /\ count' = count + 1
    /\ sleeps' = sleeps + 1
    /\ pc' = "post"
    /\ wake' = 0
    /\ sleepStart' = 0
    /\ UNCHANGED <<queue, nEnq, stopPut, shutdownCalled, held, lastpost,
                   attempts, fault, config, iter, history>>
    /\ UNCHANGED destB
    /\ UNCHANGED others

\* the for loop's else clause: raise FailedPost
PostExhausted ==
    /\ pc = "post"
    /\ ~MoreTries(count, max_tries)
    /\ fault' = "FailedPost"
    /\ pc' = "classify"
    /\ UNCHANGED <<queue, nEnq, stopPut, shutdownCalled, held, lastpost, count,
                   attempts, now, wake, config, iter, history, sleeps, sleepStart>>
    /\ UNCHANGED destB
    /\ UNCHANGED others

\* mutant: a post that failed gives its slot back by clearing lastpost
ClassifyRewinds ==
    /\ pc = "classify"
    /\ pc' = Catch(fault)
    /\ results' = Append(results, fault)
    /\ inflight' = inflight \ {held.id}
    /\ critical' = IF Catch(fault) = "stopped" THEN critical \cup {held.id} ELSE critical
    /\ lastpost' = IF fault = "none" THEN lastpost ELSE 0
    /\ IF fault = "BadLogin"
          THEN /\ wake' = now + BadLoginWait
               /\ sleepStart' = now
          ELSE UNCHANGED <<wake, sleepStart>>
    /\ fault' = "none"
    /\ attempts' = <<>>
    /\ count' = 0
    /\ sleeps' = 0
    /\ UNCHANGED <<queue, nEnq, stopPut, shutdownCalled, held, now,
                   config, iter, discarded, skipped, dispatched, formatted,
                   posted, accepted>>
    /\ UNCHANGED destB
    /\ UNCHANGED others

\* run_loop's except / else clauses
Classify ==
    /\ pc = "classify"
    /\ pc' = Catch(fault)
    /\ results' = Append(results, fault)
    /\ inflight' = inflight \ {held.id}
    /\ critical' = IF Catch(fault) = "stopped" THEN critical \cup {held.id} ELSE critical
    /\ IF fault = "BadLogin"
          THEN /\ wake' = now + BadLoginWait
               /\ sleepStart' = now
          ELSE UNCHANGED <<wake, sleepStart>>
    /\ fault' = "none"
    /\ attempts' = <<>>
    /\ count' = 0
    /\ sleeps' = 0
    /\ UNCHANGED <<queue, nEnq, stopPut, shutdownCalled, held, lastpost, now,
                   config, iter, discarded, skipped, dispatched, formatted,
                   posted, accepted>>
    /\ UNCHANGED destB
    /\ UNCHANGED others

\* mutant: after the hour the record in hand is tried again
CooldownRetries ==
    /\ pc = "cooldown"
    /\ now' = Max(now, wake)
    /\ pc' = "gated"
    /\ wake' = 0
    /\ sleepStart' = 0
    /\ UNCHANGED <<queue, nEnq, stopPut, shutdownCalled, held, lastpost, count,
                   attempts, fault, config, iter, history, sleeps>>
    /\ UNCHANGED destB
    /\ UNCHANGED others

\* time.sleep(3600) returns
Cooldown ==
    /\ pc = "cooldown"
    /\ now' = Max(now, wake)
    /\ pc' = "waiting"
    /\ wake' = 0
    /\ sleepStart' = 0
    /\ UNCHANGED <<queue, nEnq, stopPut, shutdownCalled, held, lastpost, count,
                   attempts, fault, config, iter, history, sleeps>>
    /\ UNCHANGED destB
    /\ UNCHANGED others

Worker ==
    \/ Get
    \/ BacklogCheck
    \/ Gate
    \/ ProcessRecord
    \/ PostAttempt
    \/ RetrySleep
    \/ PostExhausted
    \/ Classify
    \/ Cooldown

Next ==
    \/ Enqueue
    \/ ShutDown
    \/ Tick
    \/ Worker

Spec == Init /\ [][Next]_vars

\* the thread is scheduled again and again; transport calls and sleeps return
LiveSpec == Spec /\ WF_vars(Worker)

(* --------------------------- gate specification -------------------------- *)
\* skip_this_post on its own: any record time, any clock, any lastpost it can
\* have produced
GateInit ==
    /\ queue = <<>>
    /\ nEnq = 0
    /\ stopPut = 0
    /\ shutdownCalled = FALSE
    /\ pc = "waiting"
    /\ held = Stop
    /\ lastpost = 0
    /\ count = 0
    /\ attempts = <<>>
    /\ fault = "none"
    /\ now = StartTime
    /\ wake = 0
    /\ max_backlog = Maxint
    /\ max_tries = 1
    /\ stale \in StaleSet
    /\ post_interval \in GateIntervalSet
    /\ iterDepth = 0
    /\ iterPut = 0
    /\ iterDiscards = 0
    /\ discarded = {}
    /\ skipped = {}
    /\ dispatched = <<>>
    /\ results = <<>>
    /\ inflight = {}
    /\ formatted = {}
    /\ posted = {}
    /\ critical = {}
    /\ accepted = <<>>
    /\ sleeps = 0
    /\ sleepStart = 0
    /\ queueB = <<>>
    /\ nEnqB = 0
    /\ pcB = "waiting"
    /\ heldB = Stop
    /\ lastpostB = 0
    /\ dispatchedB = <<>>
    /\ wakeB = 0
    /\ sd = "idle"
    /\ unable = {}
    /\ joinStart = 0
    /\ CtorIdle
    /\ RunIdle
    /\ SockIdle
    /\ LogIdle
    /\ WowIdle
    /\ AwekasIdle
    /\ UrlIdle
    /\ CwopIdle
    /\ EnrichIdle

\* a record comes out of the queue and passes the backlog check
GateFeed ==
    /\ pc = "waiting"
    /\ nEnq < MaxGateCalls
    /\ \E t \in GateTimes : held' = Rec(nEnq + 1, t)
    /\ nEnq' = nEnq + 1
    /\ pc' = "gated"
    /\ UNCHANGED <<queue, stopPut, shutdownCalled, lastpost, count, attempts,
                   fault, now, wake, config, iter, history, sleeps, sleepStart>>
    /\ UNCHANGED destB
    /\ UNCHANGED others

\* process_record comes back, whatever its outcome, and the loop goes round
GateDone ==
    /\ pc = "process"
    /\ pc' = "waiting"
    /\ inflight' = {}
    /\ UNCHANGED <<queue, nEnq, stopPut, shutdownCalled, held, lastpost, count,
                   attempts, fault, now, wake, config, iter, discarded, skipped,
                   dispatched, results, formatted, posted, critical, accepted,
                   sleeps, sleepStart>>
    /\ UNCHANGED destB
    /\ UNCHANGED others

GateNext ==
    \/ GateFeed
    \/ Gate
    \/ GateDone
    \/ Tick

GateSpec == GateInit /\ [][GateNext]_vars

(* ------------------------- two destinations at once --------------------- *)
\* StdWunderground with archive_post and rapidfire both on: the archive thread
\* (queue, pc, ...) and the loop thread (queueB, pcB, ...), each with a queue
\* of its own.  The loop thread runs with the rapidfire defaults.
MaxBacklogB == 0
FaultsB == {"none", "FailedPost", "BadLogin", "Unexpected"}

DualInit ==
    /\ Init
    /\ max_backlog \in {0, Maxint}
    /\ max_tries = 1
    /\ stale = None
    /\ post_interval = 3600

\* new_loop_packet: self.loop_queue.put(event.packet)
EnqueueB ==
    /\ nEnqB < MaxPackets
    /\ ~PutBlocks(queueB, QueueMaxsize)
    /\ queueB' = Append(queueB, Rec(nEnqB + 1, StartTime))
    /\ nEnqB' = nEnqB + 1
    /\ UNCHANGED <<pcB, heldB, lastpostB, dispatchedB, wakeB>>
    /\ UNCHANGED <<queue, nEnq, stopPut, shutdownCalled, pc, held, lastpost,
                   count, attempts, fault, now, wake, config, iter, history,
                   sleeps, sleepStart>>
    /\ UNCHANGED others

\* the loop thread's run_loop from queue.get() to the call of process_record
GetB ==
    /\ pcB = "waiting"
    /\ queueB # <<>>
    /\ heldB' = QGet(queueB)
    /\ queueB' = Tail(queueB)
    /\ IF IsStop(QGet(queueB))
          THEN /\ pcB' = "stopped"
               /\ UNCHANGED <<lastpostB, dispatchedB>>
          ELSE IF BacklogOk(Tail(queueB), MaxBacklogB)
                  /\ ~SkipThisPost(QGet(queueB).dateTime, now, lastpostB, None, None)
                 THEN /\ pcB' = "process"
                      /\ lastpostB' = QGet(queueB).dateTime
                      /\ dispatchedB' = Append(dispatchedB, QGet(queueB).id)
                 ELSE /\ pcB' = "waiting"
                      /\ UNCHANGED <<lastpostB, dispatchedB>>
    /\ UNCHANGED <<nEnqB, wakeB>>
    /\ UNCHANGED <<queue, nEnq, stopPut, shutdownCalled, pc, held, lastpost,
                   count, attempts, fault, now, wake, config, iter, history,
                   sleeps, sleepStart>>
    /\ UNCHANGED others

\* the loop thread's process_record comes back and run_loop's except / else
\* clauses take over
DeliverB ==
    /\ pcB = "process"
    /\ \E f \in FaultsB :
          /\ pcB' = Catch(f)
          /\ wakeB' = IF f = "BadLogin" THEN now + BadLoginWait ELSE 0
    /\ UNCHANGED <<queueB, nEnqB, heldB, lastpostB, dispatchedB>>
    /\ UNCHANGED <<queue, nEnq, stopPut, shutdownCalled, pc, held, lastpost,
                   count, attempts, fault, now, wake, config, iter, history,
                   sleeps, sleepStart>>
    /\ UNCHANGED others

\* the loop thread's time.sleep(3600) returns
CooldownB ==
    /\ pcB = "cooldown"
    /\ now' = Max(now, wakeB)
    /\ pcB' = "waiting"
    /\ wakeB' = 0
    /\ UNCHANGED <<queueB, nEnqB, heldB, lastpostB, dispatchedB>>
    /\ UNCHANGED <<queue, nEnq, stopPut, shutdownCalled, pc, held, lastpost,
                   count, attempts, fault, wake, config, iter, history,
                   sleeps, sleepStart>>
    /\ UNCHANGED others

WorkerB ==
    \/ GetB
    \/ DeliverB
    \/ CooldownB

DualNext ==
    \/ Next
    \/ EnqueueB
    \/ WorkerB

DualSpec == DualInit /\ [][DualNext]_vars

(* --------------------------- shutDown, call by call ---------------------- *)
\* mutant: t.join() without a timeout
JoinReturnsWhenEnded(alive, timeout) == ~alive

\* threading.Thread.join(timeout): comes back when the thread has ended or the
\* timeout has run out
JoinReturns(alive, timeout) == ~alive \/ timeout # None

ShutInit ==
    /\ DualInit
    /\ max_backlog = Maxint

\* shutDown_thread(self.loop_queue, self.loop_thread) up to t.join
ShutDownThreadLoop ==
    /\ sd = "idle"
    /\ IF pcB # "stopped"
          THEN /\ ~PutBlocks(queueB, QueueMaxsize)
               /\ queueB' = Append(queueB, Stop)
               /\ sd' = "joinLoop"
               /\ joinStart' = now
          ELSE /\ sd' = "archive"
               /\ UNCHANGED <<queueB, joinStart>>
    /\ UNCHANGED <<nEnqB, pcB, heldB, lastpostB, dispatchedB, wakeB>>
    /\ UNCHANGED <<destA, now, unable, notShut>>

\* t.join(20.0) comes back; if t.isAlive(): LOG_ERR "Unable to shut down"
JoinLoop ==
    /\ sd = "joinLoop"
    /\ JoinReturns(pcB # "stopped", JoinTimeout)
    /\ IF pcB # "stopped"
          THEN /\ now' = Max(now, joinStart + JoinTimeout)
               /\ unable' = unable \cup {"loop"}
          ELSE UNCHANGED <<now, unable>>
    /\ sd' = "archive"
    /\ joinStart' = 0
    /\ UNCHANGED <<destA, destB, notShut>>

\* shutDown_thread(self.archive_queue, self.archive_thread) up to t.join
ShutDownThreadArchive ==
    /\ sd = "archive"
    /\ shutdownCalled' = TRUE
    /\ IF pc # "stopped"
          THEN /\ ~PutBlocks(queue, QueueMaxsize)
               /\ queue' = Append(queue, Stop)
               /\ stopPut' = stopPut + 1
               /\ sd' = "joinArchive"
               /\ joinStart' = now
          ELSE /\ sd' = "done"
               /\ UNCHANGED <<queue, stopPut, joinStart>>
    /\ UNCHANGED <<nEnq, pc, held, lastpost, count, attempts, fault, wake,
                   config, iter, history, sleeps, sleepStart>>
    /\ UNCHANGED <<destB, now, unable, notShut>>

\* t.join(20.0) comes back; if t.isAlive(): LOG_ERR "Unable to shut down"
JoinArchive ==
    /\ sd = "joinArchive"
    /\ JoinReturns(pc # "stopped", JoinTimeout)
    /\ IF pc # "stopped"
          THEN /\ now' = Max(now, joinStart + JoinTimeout)
               /\ unable' = unable \cup {"archive"}
          ELSE UNCHANGED <<now, unable>>
    /\ sd' = "done"
    /\ joinStart' = 0
    /\ UNCHANGED <<destA, destB, notShut>>

\* StdRESTful.shutDown once it has been called
ShutDownSteps ==
    \/ JoinLoop
    \/ ShutDownThreadArchive
    \/ JoinArchive

\* stale is unset here, so the clock is left to the sleeps and the joins
ShutNext ==
    \/ Enqueue
    \/ EnqueueB
    \/ Worker
    \/ WorkerB
    \/ ShutDownThreadLoop
    \/ ShutDownSteps

ShutSpec == ShutInit /\ [][ShutNext]_vars

\* the caller of shutDown keeps running; nothing is assumed about the threads
LiveShutSpec == ShutSpec /\ WF_vars(ShutDownSteps)

(* ------------------------------ get_record ------------------------------- *)
\* mutant: _datadict = record, the same dictionary under a second name
DictCopyAliases(r) == [copy |-> r, shared |-> TRUE]

\* _datadict = dict(record): a new dictionary with the same items
DictCopy(r) == [copy |-> r, shared |-> FALSE]

\* mutant: an empty result is reported as no rain
NoDataValueZero(r) == 0

\* the else branch: _datadict[field] = None
NoDataValue(r) == None

\* mutant: the units are compared even when the sum is null
HasSumAnyRow(r) == r.kind = "row"

\* _result is not None and _result[0] is not None
HasSum(r) == r.kind = "row" /\ r.sum # None

\* mutant: only MIN(usUnits) is compared with the record
UnitsAgreeMinOnly(r, u) == r.mn = u

\* _result[1] == _result[2] == record['usUnits']
UnitsAgree(r, u) == r.mn = r.mx /\ r.mx = u

\* mutant: the except clause is around the first query only
CaughtFirstOnly(f) == f = "hourRain"

\* the fields whose query lies inside try ... except weedb.OperationalError
Caught(f) == f \in RainFields

\* one "if not _datadict.has_key(f)" block of get_record
QueryStep(st, f, r) ==
    IF st.status # "run" \/ st.dd[f] # Absent
       THEN st
       ELSE IF r.kind = "OperationalError"
               THEN [st EXCEPT !.status = IF Caught(f) THEN "OperationalError"
                                                      ELSE "Unexpected",
                               !.asked = @ \cup {f}]
               ELSE IF HasSum(r)
                       THEN IF ~UnitsAgree(r, st.dd.usUnits)
                               THEN [st EXCEPT !.status = "ValueError",
                                               !.asked = @ \cup {f}]
                               ELSE [st EXCEPT !.dd[f] = r.sum,
                                               !.asked = @ \cup {f}]
                       ELSE [st EXCEPT !.dd[f] = NoDataValue(r),
                                       !.asked = @ \cup {f}]

\* get_record: the three blocks one after the other
GetRecord(r, q) ==
    LET s0 == [dd |-> DictCopy(r).copy, status |-> "run", asked |-> {}]
        s1 == QueryStep(s0, RainOrder[1], q[RainOrder[1]])
        s2 == QueryStep(s1, RainOrder[2], q[RainOrder[2]])
        s3 == QueryStep(s2, RainOrder[3], q[RainOrder[3]])
    IN  [s3 EXCEPT !.status = IF @ = "run" THEN "returned" ELSE @]

EnrichInit ==
    /\ MainInit
    /\ max_backlog = Maxint
    /\ max_tries = 1
    /\ stale = None
    /\ post_interval = None
    /\ CtorIdle
    /\ RunIdle
    /\ SockIdle
    /\ LogIdle
    /\ WowIdle
    /\ AwekasIdle
    /\ UrlIdle
    /\ CwopIdle
    /\ record \in Records
    /\ recIn = record
    /\ qres \in [RainFields -> SqlResults]
    /\ asked = {}
    /\ datadict = NoRecord
    /\ enrichStatus = "none"

\* process_record up to the call of post_with_retries, get_record in detail
EnrichRecord ==
    /\ pc = "process"
    /\ \E r \in {record}, q \in {qres} :
          LET g == GetRecord(r, q)
          IN  /\ recIn' = r
              /\ qres' = q
              /\ asked' = g.asked
              /\ datadict' = g.dd
              /\ record' = IF DictCopy(r).shared THEN g.dd ELSE r
              /\ enrichStatus' = g.status
              /\ IF g.status \in {"returned", "OperationalError"}
                    THEN /\ pc' = "post"
                         /\ formatted' = formatted \cup {held.id}
                         /\ UNCHANGED fault
                    ELSE /\ pc' = "classify"
                         /\ fault' = "Unexpected"
                         /\ UNCHANGED formatted
    /\ count' = 0
    /\ attempts' = <<>>
    /\ sleeps' = 0
    /\ UNCHANGED <<queue, nEnq, stopPut, shutdownCalled, held, lastpost, now,
                   wake, config, iter, discarded, skipped, dispatched, results,
                   inflight, posted, critical, accepted, sleepStart>>
    /\ UNCHANGED <<destB, notEnrich>>

\* new_archive_record, for the records followed through get_record
EnrichFeed ==
    /\ nEnq < MaxEnriched
    /\ Enqueue

EnrichNext ==
    \/ EnrichFeed
    \/ Get
    \/ BacklogCheck
    \/ Gate
    \/ EnrichRecord
    \/ PostAttempt
    \/ RetrySleep
    \/ PostExhausted
    \/ Classify
    \/ Cooldown

EnrichSpec == EnrichInit /\ [][EnrichNext]_vars

(* ------------------------ AWEKASThread.get_record ------------------------ *)
\* a row of 'select rainRate from archive where dateTime=?'
RateRow(v) == [kind |-> "row", sum |-> v, mn |-> None, mx |-> None]
\* what archive.getSql can give for it: an error, no row, a null, a rate
RainRateResults == {SqlError, NoRow, RateRow(None), RateRow(2)}

\* rr[0]: TRUE when rr can be subscripted, FALSE when it is None (TypeError)
Subscriptable(rr) == rr.kind = "row"

\* AWEKASThread.get_record after the call of the superclass, which ended as g
AwekasGetRecord(g, rr) ==
    IF g.status \notin {"returned", "OperationalError"}
       THEN [status |-> g.status, rainRate |-> Absent]
       ELSE IF rr.kind = "OperationalError"
               THEN [status |-> "returned", rainRate |-> Absent]
               ELSE IF Subscriptable(rr)
                       THEN [status |-> "returned", rainRate |-> rr.sum]
                       ELSE [status |-> "TypeError", rainRate |-> Absent]

AwekasInit ==
    /\ MainInit
    /\ max_backlog = Maxint
    /\ max_tries = 1
    /\ stale = None
    /\ post_interval = None
    /\ CtorIdle
    /\ RunIdle
    /\ SockIdle
    /\ LogIdle
    /\ WowIdle
    /\ UrlIdle
    /\ CwopIdle
    /\ record = NoRecord
    /\ recIn = record
    /\ qres \in [RainFields -> {NoRow, SqlError, [kind |-> "row", sum |-> 7, mn |-> 1, mx |-> 1]}]
    /\ asked = {}
    /\ datadict = NoRecord
    /\ enrichStatus = "none"
    /\ rrRes \in RainRateResults
    /\ rainRate = Absent
    /\ awStatus = "none"

\* AWEKASThread.process_record up to the call of post_with_retries
AwekasRecord ==
    /\ pc = "process"
    /\ LET g == GetRecord(record, qres)
           r == AwekasGetRecord(g, rrRes)
       IN  /\ asked' = g.asked
           /\ datadict' = g.dd
           /\ enrichStatus' = g.status
           /\ rainRate' = r.rainRate
           /\ awStatus' = r.status
           /\ IF r.status = "returned"
                 THEN /\ pc' = "post"
                      /\ formatted' = formatted \cup {held.id}
                      /\ UNCHANGED fault
                 ELSE /\ pc' = "classify"
                      /\ fault' = "Unexpected"
                      /\ UNCHANGED formatted
    /\ count' = 0
    /\ attempts' = <<>>
    /\ sleeps' = 0
    /\ UNCHANGED <<queue, nEnq, stopPut, shutdownCalled, held, lastpost, now,
                   wake, config, iter, discarded, skipped, dispatched, results,
                   inflight, posted, critical, accepted, sleepStart>>
    /\ UNCHANGED <<record, recIn, qres, rrRes>>
    /\ UNCHANGED <<destB, shut, ctor, run, cwop, url, wow, logs, socks>>

AwekasNext ==
    \/ EnrichFeed
    \/ Get
    \/ BacklogCheck
    \/ Gate
    \/ AwekasRecord
    \/ PostAttempt
    \/ RetrySleep
    \/ PostExhausted
    \/ Classify
    \/ Cooldown

AwekasSpec == AwekasInit /\ [][AwekasNext]_vars

(* ------------------------- WOWThread.post_request ------------------------ *)
\* what urllib2.urlopen can give: a response with its code, an HTTPError with
\* its code, or another URLError
Response(c) == [kind |-> "response", code |-> c]
HTTPError(c) == [kind |-> "HTTPError", code |-> c]
URLError == [kind |-> "URLError", code |-> 0]
UrlopenResults ==
    {Response(200), Response(204), HTTPError(400), HTTPError(403),
     HTTPError(404), HTTPError(500), URLError}

\* mutant: only code 400 is taken for a bad login
WowPostRequest400Only(u) ==
    CASE u.kind = "HTTPError" /\ u.code = 400 -> "badlogin"
      [] u.kind = "HTTPError" /\ u.code # 400 -> "urlerror"
      [] u.kind = "URLError" -> "urlerror"
      [] u.kind = "response" /\ u.code = 200 -> "ok"
      [] OTHER -> "badcode"

\* WOWThread.post_request and post_with_retries' test of the code: how the
\* attempt ends. An HTTPError that is raised again is a urllib2.URLError.
WowPostRequest(u) ==
    CASE u.kind = "HTTPError" /\ (u.code = 400 \/ u.code = 403) -> "badlogin"
      [] u.kind = "HTTPError" /\ ~(u.code = 400 \/ u.code = 403) -> "urlerror"
      [] u.kind = "URLError" -> "urlerror"
      [] u.kind = "response" /\ u.code = 200 -> "ok"
      [] OTHER -> "badcode"

WowInit ==
    /\ MainInit
    /\ max_backlog = Maxint
    /\ stale = None
    /\ post_interval = None
    /\ CtorIdle
    /\ RunIdle
    /\ SockIdle
    /\ LogIdle
    /\ UrlIdle
    /\ CwopIdle
    /\ EnrichIdle
    /\ AwekasIdle
    /\ WowIdle

\* one pass of post_with_retries' loop body with WOWThread.post_request
WowPostAttempt ==
    /\ pc = "post"
    /\ MoreTries(count, max_tries)
    /\ \E u \in UrlopenResults :
          LET o == WowPostRequest(u)
          IN  /\ urlopen' = u
              /\ attempts' = Append(attempts, o)
              /\ pc' = AfterAttempt(o).pc
              /\ fault' = AfterAttempt(o).fault
              /\ IF o \in Retryable
                    THEN /\ wake' = now + RetryWait
                         /\ sleepStart' = now
                    ELSE UNCHANGED <<wake, sleepStart>>
    /\ posted' = posted \cup {held.id}
    /\ UNCHANGED <<queue, nEnq, stopPut, shutdownCalled, held, lastpost, count,
                   now, config, iter, discarded, skipped, dispatched, results,
                   inflight, formatted, critical, accepted, sleeps>>
    /\ UNCHANGED <<destB, notWow>>

WowNext ==
    \/ Enqueue
    \/ Get
    \/ BacklogCheck
    \/ Gate
    \/ ProcessRecord
    \/ WowPostAttempt
    \/ RetrySleep
    \/ PostExhausted
    \/ Classify
    \/ Cooldown

WowSpec == WowInit /\ [][WowNext]_vars

(* ------------------------------ outcome log ------------------------------ *)
\* the message run_loop has for each way process_record can end
Message(f) ==
    CASE f = "BadLogin" -> "bad login; waiting 60 minutes then retrying"
      [] f = "FailedPost" -> "Failed to publish record"
      [] f = "none" -> "Published record"
      [] OTHER -> "Unexpected exception"

\* mutant: one flag, log_success, decides for both messages
LoggedBySuccessFlag(f, ls, lf) ==
    CASE f = "BadLogin" -> TRUE
      [] f = "FailedPost" -> ls
      [] f = "none" -> ls
      [] OTHER -> TRUE

\* the except / else clauses of run_loop: TRUE when the message is written
Logged(f, ls, lf) ==
    CASE f = "BadLogin" -> TRUE
      [] f = "FailedPost" -> lf
      [] f = "none" -> ls
      [] OTHER -> TRUE

LogInit ==
    /\ MainInit
    /\ max_backlog = Maxint
    /\ stale = None
    /\ post_interval = None
    /\ max_tries = 1
    /\ CtorIdle
    /\ RunIdle
    /\ SockIdle
    /\ UrlIdle
    /\ CwopIdle
    /\ EnrichIdle
    /\ AwekasIdle
    /\ WowIdle
    /\ log_success \in BOOLEAN
    /\ log_failure \in BOOLEAN
    /\ syslog = <<>>

\* run_loop's except / else clauses, with what they write to the log
ClassifyLogged ==
    /\ pc = "classify"
    /\ pc' = Catch(fault)
    /\ results' = Append(results, fault)
    /\ inflight' = inflight \ {held.id}
    /\ critical' = IF Catch(fault) = "stopped" THEN critical \cup {held.id} ELSE critical
    /\ syslog' = IF Logged(fault, log_success, log_failure)
                    THEN Append(syslog, [id |-> held.id, msg |-> Message(fault)])
                    ELSE syslog
    /\ IF fault = "BadLogin"
          THEN /\ wake' = now + BadLoginWait
               /\ sleepStart' = now
          ELSE UNCHANGED <<wake, sleepStart>>
    /\ fault' = "none"
    /\ attempts' = <<>>
    /\ count' = 0
    /\ sleeps' = 0
    /\ UNCHANGED <<queue, nEnq, stopPut, shutdownCalled, held, lastpost, now,
                   config, iter, discarded, skipped, dispatched, formatted,
                   posted, accepted>>
    /\ UNCHANGED <<log_success, log_failure>>
    /\ UNCHANGED <<destB, notLogs>>

LogNext ==
    \/ Enqueue
    \/ Get
    \/ BacklogCheck
    \/ Gate
    \/ ProcessRecord
    \/ PostAttempt
    \/ RetrySleep
    \/ PostExhausted
    \/ ClassifyLogged
    \/ Cooldown

LogSpec == LogInit /\ [][LogNext]_vars

(* ---------------------------------- run ---------------------------------- *)
\* mutant: open, run_loop, close one after the other, with no 'with'
ExitRunsOnReturnOnly(exc) == ~exc

\* the with statement: __exit__ runs when the block is left, by return or by
\* an exception
ExitRuns(exc) == TRUE

\* what the manager's __exit__ does to the connection
ArchiveExit(a) == IF a = "open" THEN "closed" ELSE a

RunInit ==
    /\ MainInit
    /\ max_backlog = Maxint
    /\ max_tries = 1
    /\ stale = None
    /\ post_interval = None
    /\ CtorIdle
    /\ EnrichIdle
    /\ CwopIdle
    /\ UrlIdle
    /\ AwekasIdle
    /\ WowIdle
    /\ LogIdle
    /\ SockIdle
    /\ database \in BOOLEAN
    /\ thread = "created"
    /\ archive = "none"
    /\ opens = 0
    /\ escaped = FALSE

\* run up to the call of run_loop
Run ==
    /\ thread = "created"
    /\ thread' = "running"
    /\ IF database
          THEN /\ archive' = "open"
               /\ opens' = opens + 1
          ELSE UNCHANGED <<archive, opens>>
    /\ UNCHANGED <<database, escaped>>
    /\ UNCHANGED <<destA, destB, notRun, now>>

\* a step of run_loop, once run has called it
RunLoopStep ==
    /\ thread = "running"
    /\ Worker

\* an exception leaves run_loop: _record['dateTime'] at the call of
\* skip_this_post, or something 'except Exception' does not catch
Escape ==
    /\ thread = "running"
    /\ pc \in {"gated", "post"}
    /\ pc' = "stopped"
    /\ escaped' = TRUE
    /\ UNCHANGED <<queue, nEnq, stopPut, shutdownCalled, held, lastpost, count,
                   attempts, fault, wake, config, iter, history, sleeps, sleepStart>>
    /\ UNCHANGED <<database, thread, archive, opens>>
    /\ UNCHANGED <<destB, notRun, now>>

\* run_loop is over: the with block is left and run ends
RunExit ==
    /\ thread = "running"
    /\ pc = "stopped"
    /\ thread' = "ended"
    /\ archive' = IF ExitRuns(escaped) THEN ArchiveExit(archive) ELSE archive
    /\ UNCHANGED <<database, opens, escaped>>
    /\ UNCHANGED <<destA, destB, notRun, now>>

RunNext ==
    \/ Enqueue
    \/ ShutDown
    \/ Run
    \/ RunLoopStep
    \/ Escape
    \/ RunExit

RunSpec == RunInit /\ [][RunNext]_vars

(* ------------------------- CWOPThread.send_packet ------------------------ *)
MaxServers == 2
\* how one pass of the inner loop body can end
CwopOutcomes == {"ok", "ConnectError", "SendErrorLogin", "SendErrorPacket", "other"}
\* the exceptions the two except clauses take
CwopCaught == {"ConnectError", "SendErrorLogin", "SendErrorPacket"}
Exhausted == [srv |-> 0, cnt |-> 0]

\* the first pass of the two for loops, if there is one
FirstTry(n, mt) == IF n >= 1 /\ mt >= 1 THEN [srv |-> 1, cnt |-> 0] ELSE Exhausted

\* mutant: the loops the other way round, every server once per round
NextTryRoundRobin(s, c, n, mt) ==
    IF s < n THEN [srv |-> s + 1, cnt |-> c]
    ELSE IF c + 1 < mt THEN [srv |-> 1, cnt |-> c + 1]
    ELSE Exhausted

\* for _serv_addr_str in self.server_list: for _count in range(self.max_tries):
\* the pass that follows pass (s, c)
NextTry(s, c, n, mt) ==
    IF c + 1 < mt THEN [srv |-> s, cnt |-> c + 1]
    ELSE IF s < n THEN [srv |-> s + 1, cnt |-> 0]
    ELSE Exhausted

CwopInit ==
    /\ MainInit
    /\ max_backlog = Maxint
    /\ max_tries \in TriesSet
    /\ stale = None
    /\ post_interval = None
    /\ CtorIdle
    /\ EnrichIdle
    /\ RunIdle
    /\ SockIdle
    /\ LogIdle
    /\ WowIdle
    /\ AwekasIdle
    /\ UrlIdle
    /\ nServers \in 0..MaxServers
    /\ srv = 0
    /\ cnt = 0
    /\ tries = <<>>
    /\ cwStatus = "idle"

\* send_packet is called and reaches the first pass, or has none to make
SendPacket ==
    /\ cwStatus = "idle"
    /\ LET t == FirstTry(nServers, max_tries)
       IN  /\ srv' = t.srv
           /\ cnt' = t.cnt
           /\ cwStatus' = IF t = Exhausted THEN "FailedPost" ELSE "running"
    /\ UNCHANGED <<nServers, tries>>
    /\ UNCHANGED <<destA, destB, notCwop, now>>

\* one pass of the inner loop: _get_connect, the two _send calls, the except
\* clauses
TryOnce ==
    /\ cwStatus = "running"
    /\ \E o \in CwopOutcomes :
          /\ tries' = Append(tries, [srv |-> srv, cnt |-> cnt, outcome |-> o])
          /\ IF o = "ok"
                THEN /\ cwStatus' = "returned"
                     /\ UNCHANGED <<srv, cnt>>
                ELSE IF o \in CwopCaught
                        THEN LET t == NextTry(srv, cnt, nServers, max_tries)
                             IN  /\ srv' = t.srv
                                 /\ cnt' = t.cnt
                                 /\ cwStatus' = IF t = Exhausted THEN "FailedPost"
                                                                 ELSE "running"
                        ELSE /\ cwStatus' = "raised"
                             /\ UNCHANGED <<srv, cnt>>
    /\ UNCHANGED nServers
    /\ UNCHANGED <<destA, destB, notCwop, now>>

CwopNext ==
    \/ SendPacket
    \/ TryOnce

CwopSpec == CwopInit /\ [][CwopNext]_vars

(* --------------------- send_packet, socket by socket --------------------- *)
\* how sock.send and sock.recv can end
SendEvents == {"ok", "IOError", "other"}
RecvEvents == {"ok", "IOError"}

\* mutant: a reply that cannot be read is a SendError too
SendRecvFailureRaises(s, r) ==
    CASE s = "IOError" -> "SendError"
      [] s = "other" -> "other"
      [] s = "ok" /\ r = "IOError" -> "SendError"
      [] OTHER -> "sent"

\* _send: SendError for an IOError of sock.send, any other exception as it
\* is, and a return whatever sock.recv does
Send(s, r) ==
    CASE s = "IOError" -> "SendError"
      [] s = "other" -> "other"
      [] OTHER -> "sent"

\* _sock = self._get_connect(_server, _port)
GetConnect ==
    /\ cwStatus = "running"
    /\ phase = "connect"
    /\ \E c \in {"ok", "IOError"} :
          IF c = "ok"
             THEN /\ sock' = "open"
                  /\ phase' = "login"
                  /\ pending' = "none"
             ELSE /\ sock' = "closed"
                  /\ phase' = "except"
                  /\ pending' = "ConnectError"
    /\ recvFailed' = FALSE
    /\ UNCHANGED <<destA, destB, notSocks, now>>

\* self._send(_sock, login, 'login')
SendLogin ==
    /\ cwStatus = "running"
    /\ phase = "login"
    /\ \E s \in SendEvents, r \in RecvEvents :
          /\ recvFailed' = (s = "ok" /\ r = "IOError")
          /\ IF Send(s, r) = "sent"
                THEN /\ phase' = "packet"
                     /\ UNCHANGED pending
                ELSE /\ phase' = "finally"
                     /\ pending' = Send(s, r)
    /\ UNCHANGED sock
    /\ UNCHANGED <<destA, destB, notSocks, now>>

\* self._send(_sock, tnc_packet, 'packet') ; return
SendTnc ==
    /\ cwStatus = "running"
    /\ phase = "packet"
    /\ \E s \in SendEvents, r \in RecvEvents :
          /\ recvFailed' = (recvFailed \/ (s = "ok" /\ r = "IOError"))
          /\ pending' = IF Send(s, r) = "sent" THEN "return" ELSE Send(s, r)
    /\ phase' = "finally"
    /\ UNCHANGED sock
    /\ UNCHANGED <<destA, destB, notSocks, now>>

\* finally: _sock.close(), then the return or the exception goes on
Finally ==
    /\ cwStatus = "running"
    /\ phase = "finally"
    /\ sock' = "closed"
    /\ CASE pending = "return" ->
              /\ cwStatus' = "returned"
              /\ phase' = "connect"
        [] pending = "SendError" ->
              /\ cwStatus' = cwStatus
              /\ phase' = "except"
        [] OTHER ->
              /\ cwStatus' = "raised"
              /\ phase' = "connect"
    /\ UNCHANGED <<pending, recvFailed>>
    /\ UNCHANGED <<nServers, srv, cnt, tries>>
    /\ UNCHANGED <<destA, destB, shut, ctor, enrich, run, url, awekas, wow, logs, now>>

\* the two except clauses: log, and on to the next pass if there is one
Except ==
    /\ cwStatus = "running"
    /\ phase = "except"
    /\ LET t == NextTry(srv, cnt, nServers, max_tries)
       IN  /\ srv' = t.srv
           /\ cnt' = t.cnt
           /\ cwStatus' = IF t = Exhausted THEN "FailedPost" ELSE "running"
    /\ phase' = "connect"
    /\ pending' = "none"
    /\ UNCHANGED <<sock, recvFailed>>
    /\ UNCHANGED <<nServers, tries>>
    /\ UNCHANGED <<destA, destB, shut, ctor, enrich, run, url, awekas, wow, logs, now>>

SockNext ==
    \/ SendPacket
    \/ GetConnect
    \/ SendLogin
    \/ SendTnc
    \/ Finally
    \/ Except

SockSpec == CwopInit /\ [][SockNext]_vars

(* ------------------------- AmbientThread.format_url ---------------------- *)
\* the four items _liststr starts with
FixedItems ==
    <<[name |-> "action", val |-> Text("updateraw")],
      [name |-> "ID", val |-> Text("station")],
      [name |-> "PASSWORD", val |-> Text("password")],
      [name |-> "softwaretype", val |-> Text("weewx")]>>

\* mutant: record.get(_key, 0)
RecordGetZero(r, k) == IF r[k] = Absent THEN 0 ELSE r[k]

\* record.get(_key): None for a key the record does not have
RecordGet(r, k) == IF r[k] = Absent THEN None ELSE r[k]

\* _formats[_key] % _v
FormatItem(k, v) == [name |-> FormatName[k], val |-> Number(v)]

\* '&'.join(_liststr), as tokens: name, "=", value, then "&" before the next
RECURSIVE JoinAmp(_)
JoinAmp(l) ==
    IF l = <<>> THEN <<>>
    ELSE IF Len(l) = 1 THEN <<Text(l[1].name), Text("="), l[1].val>>
    ELSE <<Text(l[1].name), Text("="), l[1].val, Text("&")>> \o JoinAmp(Tail(l))

UrlInit ==
    /\ MainInit
    /\ max_backlog = Maxint
    /\ max_tries = 1
    /\ stale = None
    /\ post_interval = None
    /\ CtorIdle
    /\ EnrichIdle
    /\ RunIdle
    /\ SockIdle
    /\ LogIdle
    /\ WowIdle
    /\ AwekasIdle
    /\ CwopIdle
    /\ urlRec \in [RecordKeys -> UrlValues]
    /\ liststr = <<>>
    /\ visited = {}
    /\ query = <<>>
    /\ urlStatus = "idle"

\* format_url up to the for loop
FormatStart ==
    /\ urlStatus = "idle"
    /\ liststr' = FixedItems
    /\ urlStatus' = "loop"
    /\ UNCHANGED <<urlRec, visited, query>>
    /\ UNCHANGED <<destA, destB, notUrl, now>>

\* one pass of 'for _key in AmbientThread._formats', in the dictionary's order
FormatKey ==
    /\ urlStatus = "loop"
    /\ \E k \in FormatKeys \ visited :
          /\ visited' = visited \cup {k}
          /\ liststr' = IF RecordGet(urlRec, k) # None
                           THEN Append(liststr, FormatItem(k, RecordGet(urlRec, k)))
                           ELSE liststr
    /\ UNCHANGED <<urlRec, query, urlStatus>>
    /\ UNCHANGED <<destA, destB, notUrl, now>>

\* the loop is over: _urlquery = '&'.join(_liststr)
FormatJoin ==
    /\ urlStatus = "loop"
    /\ visited = FormatKeys
    /\ query' = JoinAmp(liststr)
    /\ urlStatus' = "done"
    /\ UNCHANGED <<urlRec, liststr, visited>>
    /\ UNCHANGED <<destA, destB, notUrl, now>>

UrlNext ==
    \/ FormatStart
    \/ FormatKey
    \/ FormatJoin

UrlSpec == UrlInit /\ [][UrlNext]_vars

(* ----------------------- construction of a service ---------------------- *)
MaxEvents == 2
Services == {"Wunderground", "CWOP", "AWEKAS"}
OptionNames == {"station", "password", "passcode", "username", "server_url"}

\* mutant: only the first of the required options is looked up
MissingOptionFirstOnly(s, sec, ks, pre) ==
    \/ ~sec
    \/ s \in {"Wunderground", "CWOP"} /\ "station" \notin ks
    \/ s = "AWEKAS" /\ "username" \notin ks

\* the try block of __init__: TRUE when it ends in KeyError
MissingOption(s, sec, ks, pre) ==
    \/ ~sec
    \/ s = "Wunderground" /\ ("station" \notin ks \/ "password" \notin ks)
    \/ s = "CWOP" /\ ("station" \notin ks \/ (~pre /\ "passcode" \notin ks))
    \/ s = "AWEKAS" /\ ("username" \notin ks \/ "password" \notin ks)

\* do_rapidfire_post / do_archive_post
DoRapidfire(s, rf) == s = "Wunderground" /\ rf
DoArchive(s, rf, ap) ==
    IF s = "Wunderground"
       THEN (IF ap = "unset" THEN ~rf ELSE ap = "true")
       ELSE TRUE

\* StdWunderground.rapidfire_url / archive_url
rapidfire_url == "http://rtupdate.wunderground.com/weatherstation/updateweatherstation.php"
archive_url == "http://weatherstation.wunderground.com/weatherstation/updateweatherstation.php"
\* dict.setdefault on the server_url entry: the value the entry has afterwards
SetDefault(d, v) == IF d = "unset" THEN v ELSE d
\* _ambient_dict['server_url'] when the try block is left
AmbientDict(ks) == IF "server_url" \in ks THEN "configured" ELSE "unset"
\* _ambient_dict['server_url'] after the archive branch of __init__
AfterArchiveBranch(ks, rf, ap) ==
    IF DoArchive("Wunderground", rf, ap)
       THEN SetDefault(AmbientDict(ks), archive_url)
       ELSE AmbientDict(ks)
\* the server_url the thread t of service s is created with
ServerUrl(s, t, ks, rf, ap) ==
    CASE s # "Wunderground" -> "other"
      [] t = "archive" -> AfterArchiveBranch(ks, rf, ap)
      [] OTHER -> SetDefault(AfterArchiveBranch(ks, rf, ap), rapidfire_url)

CtorInit ==
    /\ MainInit
    /\ max_backlog = Maxint
    /\ max_tries = 1
    /\ stale = None
    /\ post_interval = None
    /\ svc \in Services
    /\ section \in BOOLEAN
    /\ keys \in SUBSET OptionNames
    /\ prefixOk \in BOOLEAN
    /\ rapidfire \in BOOLEAN
    /\ archive_post \in {"unset", "true", "false"}
    /\ built = "new"
    /\ queues = {}
    /\ threads = {}
    /\ bound = {}
    /\ events = 0
    /\ puts = 0
    /\ server_url = [t \in {"archive", "loop"} |-> "none"]
    /\ EnrichIdle
    /\ RunIdle
    /\ SockIdle
    /\ LogIdle
    /\ WowIdle
    /\ AwekasIdle
    /\ UrlIdle
    /\ CwopIdle

\* __init__ of the service
Construct ==
    /\ built = "new"
    /\ IF MissingOption(svc, section, keys, prefixOk)
          THEN /\ built' = "inactive"
               /\ UNCHANGED <<queues, threads, bound, server_url>>
          ELSE /\ built' = "active"
               /\ queues' = {q \in {"archive", "loop"} :
                                \/ q = "archive" /\ DoArchive(svc, rapidfire, archive_post)
                                \/ q = "loop" /\ DoRapidfire(svc, rapidfire)}
               /\ threads' = queues'
               /\ bound' = queues'
               /\ server_url' =
                     [t \in {"archive", "loop"} |->
                         IF t \in queues'
                            THEN ServerUrl(svc, t, keys, rapidfire, archive_post)
                            ELSE "none"]
    /\ UNCHANGED <<svc, section, keys, prefixOk, rapidfire, archive_post, events, puts>>
    /\ UNCHANGED <<destA, destB, notCtor, now>>

\* the engine dispatches NEW_ARCHIVE_RECORD or NEW_LOOP_PACKET to the callbacks
\* bound to it
DispatchEvent ==
    /\ built # "new"
    /\ events < MaxEvents
    /\ events' = events + 1
    /\ \E e \in {"archive", "loop"} :
          puts' = IF e \in bound THEN puts + 1 ELSE puts
    /\ UNCHANGED <<svc, section, keys, prefixOk, rapidfire, archive_post, built,
                   queues, threads, bound, server_url>>
    /\ UNCHANGED <<destA, destB, notCtor, now>>

CtorNext ==
    \/ Construct
    \/ DispatchEvent

CtorSpec == CtorInit /\ [][CtorNext]_vars

(* ------------------------------ properties ------------------------------ *)
Range(f) == {f[i] : i \in DOMAIN f}

\* post_with_retries has been called for the record in hand
PostEntered == held.id \in formatted

\* every attempt made so far in this post_with_retries asked for a retry
AllRetryable == \A i \in DOMAIN attempts : attempts[i] \in Retryable

\* C1: retry exhaustion. While post_with_retries runs, at most max_tries
\* attempts have been made; when it has ended and every attempt it made
\* reported a bad status code or a retryable transport fault, it made exactly
\* max_tries attempts and ended by raising FailedPost (max_tries = 0 included).
RetryExhaustion ==
    /\ Len(attempts) <= max_tries
    /\ (pc = "classify" /\ PostEntered /\ AllRetryable) =>
          (Len(attempts) = max_tries /\ fault = "FailedPost")

RetryExhaustionWitness ==
    /\ pc = "classify"
    /\ PostEntered
    /\ AllRetryable
    /\ Len(attempts) = MaxTries
    /\ fault = "FailedPost"

\* C2: retry success. An accepted response is the last attempt: if attempt k
\* is accepted after k-1 retryable failures, post_with_retries has made exactly
\* k <= max_tries attempts and returns without a fault.
RetrySuccess ==
    \A k \in DOMAIN attempts :
        attempts[k] = "ok" =>
            /\ k = Len(attempts)
            /\ k <= max_tries
            /\ \A i \in 1..(k - 1) : attempts[i] \in Retryable
            /\ pc = "classify"
            /\ fault = "none"

RetrySuccessWitness ==
    /\ pc = "classify"
    /\ Len(attempts) = 2
    /\ attempts[1] \in Retryable
    /\ attempts[2] = "ok"
    /\ fault = "none"

\* C3: BadLogin short-circuits the retries. If check_response reports a bad
\* login on attempt k, that attempt is the last one and BadLogin leaves
\* post_with_retries: exactly k attempts, 1 if it was the first.
BadLoginShortCircuit ==
    \A k \in DOMAIN attempts :
        attempts[k] = "badlogin" =>
            /\ k = Len(attempts)
            /\ pc = "classify"
            /\ fault = "BadLogin"

BadLoginShortCircuitWitness ==
    /\ pc = "classify"
    /\ attempts = <<"badlogin">>
    /\ max_tries = MaxTries
    /\ fault = "BadLogin"

\* C4 as stated: with D > max_backlog items queued when the thread dequeues,
\* exactly D - max_backlog items are thrown away before the next one is
\* processed.
BacklogTrimOriginal ==
    (pc = "gated" /\ iterDepth > max_backlog) =>
        iterDiscards = iterDepth - max_backlog

\* C4, amended: with D > max_backlog items queued when the thread dequeues
\* (the one it takes included) and A items put while it trims, the backlog
\* check ends after exactly D + A - max_backlog - 1 items were thrown away,
\* leaving max_backlog items queued behind the one in hand; and no item that
\* was thrown away is ever passed to process_record.
BacklogTrimCount ==
    /\ [](discarded \cap Range(dispatched) = {})
    /\ [][(pc = "backlog" /\ pc' = "gated" /\ iterDepth > max_backlog) =>
            /\ iterDiscards = iterDepth + (nPut - iterPut) - max_backlog - 1
            /\ QSize(queue) = max_backlog]_vars

BacklogTrimWitness ==
    /\ pc = "gated"
    /\ iterDepth > max_backlog
    /\ iterDiscards >= 1
    /\ iterDiscards = iterDepth - max_backlog - 1

\* the thread's first get found every record enqueued so far, no None has been
\* put, nothing was skipped and max_backlog is 0
StartedOnFullQueue ==
    /\ max_backlog = 0
    /\ stopPut = 0
    /\ skipped = {}
    /\ iterDepth >= 1
    /\ iterDepth = iterPut
    /\ iterPut = nPut

\* C5: with max_backlog = 0 and N records enqueued before the thread's first
\* get, only the newest record is passed to process_record; the other N-1 are
\* thrown away and no request is built or posted for them.
NewestOnly ==
    StartedOnFullQueue =>
        /\ Range(dispatched) \subseteq {nEnq}
        /\ formatted \subseteq {nEnq}
        /\ posted \subseteq {nEnq}
        /\ discarded \subseteq 1..(nEnq - 1)
        /\ pc \notin {"backlog", "trimwait", "gated"} =>
              /\ dispatched = <<nEnq>>
              /\ discarded = 1..(nEnq - 1)

NewestOnlyWitness ==
    /\ StartedOnFullQueue
    /\ nEnq = MaxRecords
    /\ pc = "classify"
    /\ posted = {nEnq}
    /\ discarded = 1..(nEnq - 1)

\* C6: per-destination ordering. The records passed to process_record are in
\* enqueue order, and at most one record is inside process_record at a time.
DispatchInOrder ==
    /\ \A i, j \in DOMAIN dispatched : i < j => dispatched[i] < dispatched[j]
    /\ Cardinality(inflight) <= 1
    /\ inflight # {} => pc \in {"process", "post", "retrysleep", "classify"}

DispatchInOrderWitness ==
    /\ Len(dispatched) >= 2
    /\ inflight = {dispatched[Len(dispatched)]}
    /\ queue # <<>>

\* C7: Stop is honoured. Once a None has been put, the thread eventually
\* terminates; the get that returns None ends the loop at once, and a
\* terminated thread passes nothing more to process_record.
StopHonoured ==
    /\ (stopPut > 0) ~> (pc = "stopped")
    /\ [][(pc \in {"waiting", "trimwait"} /\ pc' \notin {"waiting", "trimwait"}
              /\ Head(queue) = Stop) =>
            (pc' = "stopped" /\ dispatched' = dispatched)]_vars
    /\ [][pc = "stopped" => (pc' = "stopped" /\ dispatched' = dispatched)]_vars

StopHonouredWitness ==
    /\ pc = "stopped"
    /\ held = Stop
    /\ stopPut = 1
    /\ Len(dispatched) >= 1

\* C8: the loop ends only when a None is dequeued or process_record raises
\* something other than FailedPost and BadLogin.
OnlyStopOrUnexpectedEnds ==
    [][(pc # "stopped" /\ pc' = "stopped") =>
          \/ pc \in {"waiting", "trimwait"} /\ queue # <<>> /\ Head(queue) = Stop
          \/ pc = "classify" /\ fault = "Unexpected"]_vars

OnlyStopOrUnexpectedEndsWitness ==
    /\ pc = "stopped"
    /\ Len(results) = 2
    /\ results[1] \in {"FailedPost", "BadLogin"}
    /\ results[2] = "Unexpected"

\* C9: after FailedPost the thread goes back to waiting on the queue without
\* touching it, and no record is passed to process_record twice.
FailedPostDropsRecord ==
    /\ [](\A i, j \in DOMAIN dispatched : dispatched[i] = dispatched[j] => i = j)
    /\ [][(pc = "classify" /\ fault = "FailedPost" /\ pc' # pc) =>
            (pc' = "waiting" /\ queue' = queue /\ dispatched' = dispatched)]_vars

FailedPostDropsRecordWitness ==
    /\ Len(results) >= 1
    /\ results[1] = "FailedPost"
    /\ Len(dispatched) = 2
    /\ dispatched[1] # dispatched[2]
    /\ pc = "post"

\* C10: BadLogin sends the thread into a sleep during which it dequeues and
\* dispatches nothing; the sleep ends no earlier than 3600 s after it began and
\* the thread then waits on the queue again.
BadLoginCooldown ==
    /\ [][(pc = "classify" /\ fault = "BadLogin" /\ pc' # pc) =>
            pc' = "cooldown"]_vars
    /\ [][pc = "cooldown" =>
            /\ Len(queue') >= Len(queue)
            /\ held' = held
            /\ dispatched' = dispatched]_vars
    /\ [][(pc = "cooldown" /\ pc' # "cooldown") =>
            (pc' = "waiting" /\ now' >= sleepStart + 3600)]_vars

BadLoginCooldownWitness ==
    /\ Len(results) >= 1
    /\ results[1] = "BadLogin"
    /\ Len(dispatched) = 2
    /\ now >= StartTime + 3600
    /\ pc = "post"

\* C11: a fault of process_record other than FailedPost and BadLogin ends the
\* thread for good: the LOG_CRIT messages are written, run_loop returns, and
\* from then on the thread takes nothing from the queue, passes nothing to
\* process_record and never runs again.
UnexpectedFaultIsFatal ==
    /\ [][(pc = "classify" /\ fault = "Unexpected" /\ pc' # pc) =>
            (pc' = "stopped" /\ critical' = critical \cup {held.id})]_vars
    /\ [][pc = "stopped" =>
            /\ pc' = "stopped"
            /\ held' = held
            /\ Len(queue') >= Len(queue)
            /\ dispatched' = dispatched
            /\ results' = results]_vars

UnexpectedFaultIsFatalWitness ==
    /\ pc = "stopped"
    /\ results # <<>>
    /\ results[Len(results)] = "Unexpected"
    /\ held.id \in critical
    /\ \E i \in DOMAIN queue : queue[i].kind = "record"

\* skip_this_post is returning: TRUE if the loop goes back to the queue
GateReturns == pc = "gated" /\ pc' # pc
GateSkips == pc' = "waiting"

\* C12 as stated: with stale set, skip_this_post returns True exactly when the
\* record is older than stale, whatever post_interval and lastpost are.
StaleGateOriginal ==
    [][(GateReturns /\ stale # None) =>
          (GateSkips <=> now - held.dateTime > stale)]_vars

\* C12, amended: with stale set, skip_this_post returns True whenever the
\* record is older than stale, whatever post_interval and lastpost are; for a
\* record that is not, it returns True exactly when post_interval is set and
\* the record is less than post_interval after lastpost.
StaleGate ==
    [][(GateReturns /\ stale # None) =>
          /\ (now - held.dateTime > stale) => GateSkips
          /\ (now - held.dateTime <= stale) =>
                (GateSkips <=> (post_interval # None
                                  /\ held.dateTime - lastpost < post_interval))]_vars

StaleGateWitness ==
    /\ stale # None
    /\ post_interval # None
    /\ pc = "waiting"
    /\ held.id \in skipped
    /\ now - held.dateTime > stale
    /\ held.dateTime - lastpost >= post_interval

\* C13: rate gate spacing. With post_interval set, any two records that
\* skip_this_post let through are at least post_interval apart (for every
\* sequence of record times, the strictly increasing ones included).
RateGateSpacing ==
    post_interval # None =>
        \A i, j \in DOMAIN accepted :
            i < j => accepted[j] - accepted[i] >= post_interval

RateGateSpacingWitness ==
    /\ post_interval # None
    /\ Len(accepted) >= 2
    /\ skipped # {}
    /\ \A i \in DOMAIN accepted : i > 1 => accepted[i] > accepted[i - 1]

\* C14: the first record a fresh thread puts before skip_this_post is never
\* skipped by the post_interval check.
FirstRecordNotRateSkipped ==
    [][(GateReturns /\ skipped = {} /\ dispatched = <<>>
            /\ ~(stale # None /\ now - held.dateTime > stale)) =>
          ~GateSkips]_vars

\* C17 as stated: lastpost never decreases, whatever the record times and
\* post_interval (unset included).
LastpostMonotoneOriginal == [][lastpost' >= lastpost]_vars

\* C17, amended: with post_interval set lastpost never decreases, whatever the
\* record times are.
LastpostMonotone == [][post_interval # None => lastpost' >= lastpost]_vars

LastpostMonotoneWitness ==
    /\ post_interval # None
    /\ Len(accepted) >= 2
    /\ pc = "waiting"
    /\ held.id \in skipped
    /\ held.dateTime < lastpost
    /\ ~(stale # None /\ now - held.dateTime > stale)

\* ids of the records still in the queue
Queued == {queue[i].id : i \in DOMAIN queue} \ {0}

\* records that came out of the queue and were kept by the backlog check, the
\* one still before skip_this_post left out
PastGate ==
    {n \in 1..nEnq :
        /\ n \notin Queued
        /\ n \notin discarded
        /\ ~(pc \in {"backlog", "gated"} /\ held.id = n)}

\* C15: with stale and post_interval both unset nothing is skipped: every
\* record kept by the backlog check is passed to process_record, once, and a
\* first attempt that succeeds is the only attempt.
NoGateWhenUnset ==
    (stale = None /\ post_interval = None) =>
        /\ skipped = {}
        /\ Range(dispatched) = PastGate
        /\ Len(dispatched) = Cardinality(PastGate)
        /\ (pc = "classify" /\ attempts # <<>> /\ attempts[1] = "ok") =>
              Len(attempts) = 1

NoGateWhenUnsetWitness ==
    /\ stale = None
    /\ post_interval = None
    /\ Len(dispatched) = 2
    /\ pc = "classify"
    /\ attempts = <<"ok">>
    /\ now > StartTime

\* C16: a record skipped by skip_this_post leaves lastpost as it was and is
\* not passed to process_record; the thread goes straight back to the queue.
SkipLeavesLastpost ==
    /\ [](skipped \cap Range(dispatched) = {})
    /\ [][(GateReturns /\ GateSkips) => skipped' = skipped \cup {held.id}]_vars
    /\ [][skipped' # skipped =>
            /\ lastpost' = lastpost
            /\ dispatched' = dispatched
            /\ inflight' = inflight
            /\ posted' = posted
            /\ pc' = "waiting"]_vars

SkipLeavesLastpostWitness ==
    /\ pc = "waiting"
    /\ held.id \in skipped
    /\ Len(dispatched) = 1
    /\ lastpost > 0
    /\ lastpost # held.dateTime

\* C18: lastpost changes only when a record passes skip_this_post, where it
\* becomes that record's dateTime before process_record is called; whatever
\* process_record ends with leaves it alone.
LastpostOnlyAtGate ==
    /\ [][lastpost' # lastpost =>
            (pc = "gated" /\ pc' = "process" /\ lastpost' = held.dateTime)]_vars
    /\ [][(pc \in {"process", "post", "retrysleep", "classify", "cooldown"}) =>
            (lastpost' = lastpost)]_vars
    /\ [](pc \in {"process", "post", "retrysleep", "classify"} =>
            lastpost = held.dateTime)

LastpostOnlyAtGateWitness ==
    /\ post_interval # None
    /\ results = <<"FailedPost">>
    /\ pc = "waiting"
    /\ held.id \in skipped
    /\ ~(stale # None /\ now - held.dateTime > stale)
    /\ held.dateTime - lastpost < post_interval

(* C19: the producer is never held up.  In every reachable state, whatever
   the depth of the queue and wherever the posting thread is (waiting on the
   transport, in a retry sleep, in the hour after a bad login, or ended), the
   put of the next record can be taken at once. *)
ProducerNeverBlocks == nEnq < MaxRecords => ENABLED Enqueue

\* the thread sits out a bad login, or has ended, with the queue not empty,
\* and the next record can still be put
ProducerNeverBlocksWitness ==
    /\ pc \in {"cooldown", "stopped"}
    /\ queue # <<>>
    /\ nEnq < MaxRecords
    /\ ENABLED Enqueue

(* C20: with two destinations running, no step of the first one's thread
   (transport wait, retry sleep, bad-login hour, ending) touches the second
   one's queue, lastpost or loop state, and the second one can go on taking
   records from its queue and delivering them. *)
DestinationIsolation ==
    /\ [][Worker => UNCHANGED destB]_vars
    /\ []((pcB = "waiting" /\ queueB # <<>>) => ENABLED GetB)
    /\ [](pcB = "process" => ENABLED DeliverB)

\* the second destination is delivering a record while the first one sits
\* out the hour after a bad login
DestinationIsolationWitness ==
    /\ pc = "cooldown"
    /\ wake > now
    /\ pcB = "process"
    /\ dispatchedB # <<>>
    /\ queue # <<>>

(* C21: shutDown always completes.  For each thread that is alive it puts
   one None into that thread's queue and waits for the thread no longer than
   the join timeout; a thread still alive after that (in its bad-login hour,
   inside the transport) is reported as an error, and shutDown goes on to the
   next thread and returns. *)
ShutdownCompletes ==
    /\ (sd # "idle") ~> (sd = "done")
    /\ [][(sd = "idle" /\ sd' # "idle") =>
            (queueB' = IF pcB # "stopped" THEN Append(queueB, Stop) ELSE queueB)]_vars
    /\ [][(sd = "archive" /\ sd' # "archive") =>
            (queue' = IF pc # "stopped" THEN Append(queue, Stop) ELSE queue)]_vars
    /\ [][(sd = "joinLoop" /\ sd' # sd) =>
            ("loop" \in unable' <=> pcB # "stopped")]_vars
    /\ [][(sd = "joinArchive" /\ sd' # sd) =>
            (sd' = "done" /\ ("archive" \in unable' <=> pc # "stopped"))]_vars
    /\ [](stopPut <= 1 /\ Len(SelectSeq(queueB, IsStop)) <= 1)

\* shutDown has returned although the archive thread still sits in the hour
\* after a bad login and the loop thread never took its None
ShutdownCompletesWitness ==
    /\ sd = "done"
    /\ unable = {"loop", "archive"}
    /\ pc = "cooldown"
    /\ pcB # "stopped"

\* the credentials a destination cannot do without
RequiredCredentials(s, pre) ==
    CASE s = "Wunderground" -> {"station", "password"}
      [] s = "CWOP" -> IF pre THEN {"station"} ELSE {"station", "passcode"}
      [] s = "AWEKAS" -> {"username", "password"}
      [] OTHER -> {}

(* C22: a service constructed with a required credential missing is never
   activated: __init__ returns, no queue and no thread exist, no callback is
   bound, and no event ever leads to a put. *)
MissingCredentialNeverActivates ==
    (built # "new" /\ (~section \/ ~(RequiredCredentials(svc, prefixOk) \subseteq keys))) =>
        /\ built = "inactive"
        /\ queues = {}
        /\ threads = {}
        /\ bound = {}
        /\ puts = 0

\* a Wunderground section with a station but no password, after two events
MissingCredentialNeverActivatesWitness ==
    /\ svc = "Wunderground"
    /\ section
    /\ "station" \in keys
    /\ "password" \notin keys
    /\ built = "inactive"
    /\ events = MaxEvents

\* the query for field f came back with no row or with a null sum
NoData(f) == qres[f].kind = "none" \/ (qres[f].kind = "row" /\ qres[f].sum = None)

\* the query for field f came back with a sum whose unit tags are not both the
\* record's
UnitMismatch(f) ==
    /\ qres[f].kind = "row"
    /\ qres[f].sum # None
    /\ ~(qres[f].mn = recIn.usUnits /\ qres[f].mx = recIn.usUnits)

(* C23: get_record works on a copy.  Once it has returned or raised, the
   record passed in has the keys and values it had before, and a rain field
   that was in the record has the record's value in the copy. *)
EnrichLeavesRecord ==
    enrichStatus # "none" =>
        /\ record = recIn
        /\ \A f \in RainFields : recIn[f] # Absent => datadict[f] = recIn[f]
        /\ datadict.usUnits = recIn.usUnits

\* get_record has added a field to the copy next to one the record brought along
EnrichLeavesRecordWitness ==
    /\ enrichStatus = "returned"
    /\ recIn.hourRain = 5
    /\ recIn.dayRain = Absent
    /\ datadict.dayRain = 7
    /\ record.dayRain = Absent

(* C24: for each of hourRain, rain24 and dayRain that the record lacks, a
   query that comes back with no row or a null sum sets the field to None,
   not to zero, and raises no unit fault for that field. *)
NoRowsGiveNone ==
    \A f \in asked :
        (recIn[f] = Absent /\ NoData(f)) =>
            /\ datadict[f] = None
            /\ datadict[f] # 0
            /\ (enrichStatus = "ValueError" =>
                    \E g \in asked \ {f} : UnitMismatch(g))

\* all three queries came back empty, one of them with unit tags that differ
NoRowsGiveNoneWitness ==
    /\ enrichStatus = "returned"
    /\ asked = RainFields
    /\ \A f \in RainFields : NoData(f) /\ datadict[f] = None
    /\ qres["rain24"].kind = "row"
    /\ qres["hourRain"].kind = "none"

(* C25: when a query raises the operational fault, get_record raises
   nothing and returns the copy with what it had gathered by then; the record
   is formatted and posted, and the thread does not end because of it. *)
OperationalFaultAbandonsEnrichment ==
    (\E f \in asked : qres[f] = SqlError) =>
        /\ enrichStatus = "OperationalError"
        /\ \A f \in RainFields :
              datadict[f] = IF f \in asked /\ qres[f] # SqlError
                               THEN (IF NoData(f) THEN None ELSE qres[f].sum)
                               ELSE recIn[f]
        /\ pc \in {"post", "retrysleep", "classify"} => held.id \in formatted
        /\ pc \in {"retrysleep", "classify"} => held.id \in posted
        /\ (pc = "post" /\ count = 0) => ENABLED PostAttempt
        /\ (pc = "stopped" /\ held # Stop) => held.id \in posted

\* the second query failed; hourRain is in the copy, the record was posted and
\* the thread waits for the next one
OperationalFaultAbandonsEnrichmentWitness ==
    /\ qres["hourRain"].sum = 7
    /\ qres["rain24"] = SqlError
    /\ asked = {"hourRain", "rain24"}
    /\ datadict.hourRain = 7
    /\ datadict.rain24 = Absent
    /\ pc = "waiting"
    /\ held.id \in posted
    /\ results = <<"none">>

(* C26: when a query comes back with a non-null sum whose minimum and maximum
   unit tags are not both the record's unit system, get_record raises, nothing
   is posted for the record, and the thread takes it as an unexpected fault
   and ends. *)
UnitMismatchIsFatal ==
    (\E f \in asked : UnitMismatch(f)) =>
        /\ enrichStatus = "ValueError"
        /\ held.id \notin formatted
        /\ held.id \notin posted
        /\ pc \in {"classify", "stopped"}
        /\ pc = "classify" => fault = "Unexpected"
        /\ pc = "stopped" => (held.id \in critical /\ results[Len(results)] = "Unexpected")

\* MIN(usUnits) is the record's, MAX(usUnits) is not: the thread has ended
UnitMismatchIsFatalWitness ==
    /\ pc = "stopped"
    /\ enrichStatus = "ValueError"
    /\ \E f \in asked : UnitMismatch(f) /\ qres[f].mn = recIn.usUnits
    /\ held.id \in critical
    /\ posted = {}

(* C27: with a database configured the thread opens the archive exactly
   once, before the loop starts, and whenever the thread has ended (a None was
   taken, an unexpected fault was caught in the loop, or a fault left the
   loop) the archive connection is closed. *)
ArchiveDiscipline ==
    /\ thread = "created" => (opens = 0 /\ pc = "waiting" /\ held = Stop /\ nPut = Len(queue))
    /\ (database /\ thread # "created") => opens = 1
    /\ (database /\ thread = "running") => archive = "open"
    /\ (database /\ thread = "ended") => archive = "closed"
    /\ ~database => (opens = 0 /\ archive = "none")

\* a fault left run_loop while a record was being posted, and the archive is
\* closed
ArchiveDisciplineWitness ==
    /\ database
    /\ thread = "ended"
    /\ escaped
    /\ archive = "closed"
    /\ held.id \in inflight

(* C28: send_packet goes through server_list in order and makes up to
   max_tries attempts on one server before it moves to the next; a
   ConnectError or SendError ends one attempt and goes no further; it returns
   at the first attempt whose two sends succeed, and raises FailedPost only
   after len(server_list) * max_tries failed attempts. *)
CwopFailover ==
    /\ \A i \in DOMAIN tries :
          /\ tries[i].srv = ((i - 1) \div max_tries) + 1
          /\ tries[i].cnt = (i - 1) % max_tries
          /\ tries[i].srv <= nServers
          /\ i < Len(tries) => tries[i].outcome \in CwopCaught
    /\ cwStatus = "running" =>
          /\ \A i \in DOMAIN tries : tries[i].outcome \in CwopCaught
          /\ Len(tries) < nServers * max_tries
    /\ cwStatus = "returned" <=>
          (tries # <<>> /\ tries[Len(tries)].outcome = "ok")
    /\ cwStatus = "raised" <=>
          (tries # <<>> /\ tries[Len(tries)].outcome \notin (CwopCaught \cup {"ok"}))
    /\ cwStatus # "idle" =>
          (cwStatus = "FailedPost" <=>
              /\ Len(tries) = nServers * max_tries
              /\ \A i \in DOMAIN tries : tries[i].outcome \in CwopCaught)
    /\ cwStatus = "idle" => tries = <<>>

\* two servers, two attempts each, all four failed in different ways
CwopFailoverWitness ==
    /\ cwStatus = "FailedPost"
    /\ nServers = 2
    /\ max_tries = 2
    /\ Len(tries) = 4
    /\ tries[1].outcome = "ConnectError"
    /\ tries[2].outcome = "SendErrorPacket"
    /\ tries[3].srv = 2

\* the parameter names of a query string: the token at its start and the
\* token after each "&"
ParamNames(q) ==
    [i \in {j \in DOMAIN q : j = 1 \/ q[j - 1] = Text("&")} |-> q[i].text]

\* how often parameter n occurs in query string q
Occurrences(q, n) == Cardinality({i \in DOMAIN ParamNames(q) : ParamNames(q)[i] = n})

(* C29: in the query string format_url builds, the parameter of a mapped
   observation type is there if and only if the record has that type with a
   value that is not None, and then exactly once with the record's value; a
   missing field is left out, not sent as zero. *)
FormatUrlPresence ==
    urlStatus = "done" =>
        /\ \A k \in FormatKeys :
              Occurrences(query, FormatName[k]) =
                  IF urlRec[k] \notin {Absent, None} THEN 1 ELSE 0
        /\ \A i \in DOMAIN ParamNames(query) :
              /\ Occurrences(query, ParamNames(query)[i]) = 1
              /\ query[i + 1] = Text("=")
              /\ \A k \in FormatKeys :
                    ParamNames(query)[i] = FormatName[k] =>
                        query[i + 2] = Number(urlRec[k])

\* a record with a zero, a None and a missing field among the mapped types
FormatUrlPresenceWitness ==
    /\ urlStatus = "done"
    /\ urlRec["outTemp"] = 0
    /\ urlRec["barometer"] = None
    /\ urlRec["hourRain"] = Absent
    /\ urlRec["inTemp"] = 0
    /\ Occurrences(query, "tempf") = 1

(* C30: the backlog check throws the oldest away first.  When it lets a
   record through, that record and the records still in the queue are the ones
   put last, everything thrown away was put before the record it lets through,
   and the depth it saw is at most max_backlog. *)
TrimOldestFirst ==
    [][(pc = "backlog" /\ pc' = "gated") =>
          /\ QSize(queue) <= max_backlog
          /\ {held.id} \cup Queued = (held.id)..nEnq
          /\ \A d \in discarded : d < held.id
          /\ \A i \in DOMAIN queue : queue[i] # Stop => queue[i].id > held.id]_vars

\* the first record was thrown away and the second, the last one put, is let
\* through with nothing behind it
TrimOldestFirstWitness ==
    /\ pc = "gated"
    /\ max_backlog = 0
    /\ discarded = {1}
    /\ held.id = 2
    /\ nEnq = 2
    /\ iterDiscards = 1

\* the conditions a record that was put can be in
IsQueued(n) == n \in Queued
IsDiscarded(n) == n \in discarded
IsSkipped(n) == n \in skipped
IsDispatched(n) == n \in Range(dispatched)
\* taken from the queue, the backlog check or skip_this_post still to come
InHand(n) == pc \in {"backlog", "gated"} /\ held.id = n

\* the number of the conditions in c that hold
HowMany(c) == Cardinality({i \in DOMAIN c : c[i]})

\* C31 as stated: every record that was put is in exactly one of four
\* conditions: queued, thrown away by the backlog check, skipped by
\* skip_this_post, or passed to process_record.
ConservationOriginal ==
    \A n \in 1..nEnq :
        HowMany(<<IsQueued(n), IsDiscarded(n), IsSkipped(n), IsDispatched(n)>>) = 1

\* C31, amended: every record that was put is in exactly one of five
\* conditions: queued, in the thread's hand between queue.get and the outcome
\* of the backlog check and skip_this_post, thrown away by the backlog check,
\* skipped by skip_this_post, or passed to process_record; and no record is
\* passed to process_record twice, however its delivery ended (the hour after
\* a BadLogin included).
Conservation ==
    /\ \A n \in 1..nEnq :
          HowMany(<<IsQueued(n), InHand(n), IsDiscarded(n), IsSkipped(n),
                    IsDispatched(n)>>) = 1
    /\ \A i, j \in DOMAIN dispatched : dispatched[i] = dispatched[j] => i = j
    /\ Len(results) <= Len(dispatched)

\* the first record ended in BadLogin, the hour has passed, and the second
\* record was taken from the queue and skipped
ConservationWitness ==
    /\ results = <<"BadLogin">>
    /\ dispatched = <<1>>
    /\ skipped = {2}
    /\ pc = "waiting"
    /\ now >= StartTime + BadLoginWait

(* C32: a FailedPost that check_response raises on attempt k (a line
   starting with FAIL from the station registry, a line not starting with OK
   from AWEKAS) is not retried: attempt k is the last one, FailedPost leaves
   post_with_retries, and no time.sleep(retry_wait) follows that attempt. *)
ValidatorFailureNotRetried ==
    /\ \A k \in DOMAIN attempts :
          attempts[k] = "failline" =>
              /\ k = Len(attempts)
              /\ pc = "classify"
              /\ fault = "FailedPost"
              /\ sleeps = k - 1
              /\ wake = 0
    /\ pc = "retrysleep" => attempts[Len(attempts)] \in Retryable

\* the second attempt, after one that was retried, got a response the
\* validator refused
ValidatorFailureNotRetriedWitness ==
    /\ pc = "classify"
    /\ attempts = <<"badcode", "failline">>
    /\ fault = "FailedPost"
    /\ sleeps = 1

(* C33: the backlog check counts a None in the queue and the loop obeys it
   while trimming.  With max_backlog = 0 a record that has a None right behind
   it when qsize is read is thrown away and never passed to process_record; and
   when a get made while trimming returns None, the thread ends and passes
   nothing to process_record. *)
StopCountsAsBacklog ==
    /\ [][(pc = "backlog" /\ pc' # pc /\ max_backlog = 0
              /\ queue # <<>> /\ Head(queue) = Stop) =>
            (pc' = "trimwait" /\ held.id \in discarded')]_vars
    /\ [](\A n \in discarded : n \notin Range(dispatched) /\ n \notin inflight)
    /\ [][(pc = "trimwait" /\ pc' # pc /\ Head(queue) = Stop) =>
            (pc' = "stopped" /\ dispatched' = dispatched)]_vars
    /\ [][(pc = "stopped" /\ held = Stop) =>
            (pc' = "stopped" /\ dispatched' = dispatched)]_vars

\* the only record put had the None behind it: it was thrown away and the
\* thread ended without passing anything to process_record
StopCountsAsBacklogWitness ==
    /\ max_backlog = 0
    /\ nEnq = 1
    /\ discarded = {1}
    /\ pc = "stopped"
    /\ held = Stop
    /\ dispatched = <<>>

(* C34: after the thread has ended, by a None or by an unexpected fault, the
   service's callback still answers the engine's events: the next record is
   put into the queue, nothing is taken from the queue or posted any more, and
   the queue never gets shorter again. *)
ServiceOutlivesThread ==
    /\ []((pc = "stopped" /\ nEnq < MaxRecords) => ENABLED Enqueue)
    /\ [][pc = "stopped" =>
            /\ pc' = "stopped"
            /\ Len(queue') >= Len(queue)
            /\ \A i \in DOMAIN queue : queue'[i] = queue[i]
            /\ held' = held
            /\ dispatched' = dispatched
            /\ posted' = posted
            /\ formatted' = formatted]_vars

\* the thread ended on an unexpected fault of the first record; the second
\* record, put after the thread had taken the first, stays in the queue
ServiceOutlivesThreadWitness ==
    /\ pc = "stopped"
    /\ critical = {1}
    /\ iterPut = 1
    /\ nEnq = 2
    /\ Len(queue) = 1
    /\ queue[1].id = 2

\* attempts of the current post_with_retries that asked for a retry
FailedAttempts == {i \in DOMAIN attempts : attempts[i] \in Retryable}

(* C35: post_with_retries sleeps retry_wait after every attempt that ended
   with a bad status code or a retryable transport fault, the last one
   included, and after no other attempt: when it raises FailedPost for
   exhaustion it has slept max_tries times, and a good attempt is followed by
   no sleep. *)
RetryDelay ==
    /\ [](pc \in {"post", "classify"} => sleeps = Cardinality(FailedAttempts))
    /\ [](pc = "retrysleep" =>
            /\ attempts[Len(attempts)] \in Retryable
            /\ sleeps = Cardinality(FailedAttempts) - 1
            /\ wake = sleepStart + RetryWait)
    /\ []((pc = "classify" /\ PostEntered /\ AllRetryable) =>
            (fault = "FailedPost" /\ sleeps = max_tries))
    /\ [](\A k \in DOMAIN attempts :
            attempts[k] = "ok" => (pc = "classify" /\ sleeps = k - 1))
    /\ [][(pc = "retrysleep" /\ pc' # pc) =>
            (sleeps' = sleeps + 1 /\ now' >= sleepStart + RetryWait)]_vars
    /\ [][sleeps' > sleeps => pc = "retrysleep"]_vars

\* every attempt failed and each of them, the last included, was followed by
\* a sleep
RetryDelayWitness ==
    /\ pc = "classify"
    /\ fault = "FailedPost"
    /\ max_tries = MaxTries
    /\ Len(attempts) = MaxTries
    /\ AllRetryable
    /\ sleeps = MaxTries

(* C36: whatever rapidfire and archive_post are, with no server_url in the
   configuration each thread StdWunderground creates posts to its own
   endpoint: the archive thread to archive_url, the rapidfire thread to
   rapidfire_url. *)
WundergroundEndpoints ==
    (svc = "Wunderground" /\ built = "active" /\ "server_url" \notin keys) =>
        /\ "archive" \in threads => server_url["archive"] = archive_url
        /\ "loop" \in threads => server_url["loop"] = rapidfire_url

(* C37: when the archive has no row at the record's time, AWEKASThread's
   get_record leaves rainRate unknown and raises nothing; the record is posted
   and the thread does not end. *)
AwekasNoRowIsHarmless ==
    (rrRes = NoRow /\ enrichStatus \in {"returned", "OperationalError"}) =>
        /\ awStatus = "returned"
        /\ rainRate \in {Absent, None}
        /\ fault # "Unexpected"
        /\ pc # "stopped"

\* urlopen raised an HTTPError with code 400 or 403 in the last attempt
WowBadLoginCode ==
    /\ attempts # <<>>
    /\ urlopen.kind = "HTTPError"
    /\ urlopen.code \in {400, 403}

\* urlopen raised an HTTPError with another code in the last attempt
WowOtherHttpError ==
    /\ attempts # <<>>
    /\ urlopen.kind = "HTTPError"
    /\ urlopen.code \notin {400, 403}

(* C38: WOWThread turns an HTTPError with code 400 or 403 into BadLogin,
   which ends post_with_retries after that attempt with no sleep and no
   retry; an HTTPError with any other code is retried like any transport
   fault, until max_tries attempts were made. *)
WowHttpErrors ==
    /\ [](WowBadLoginCode =>
            /\ pc = "classify"
            /\ fault = "BadLogin"
            /\ attempts[Len(attempts)] = "badlogin"
            /\ sleeps = Len(attempts) - 1)
    /\ [](WowOtherHttpError =>
            /\ attempts[Len(attempts)] \in Retryable
            /\ pc \in {"retrysleep", "post", "classify"}
            /\ (pc = "post" /\ Len(attempts) < max_tries) => ENABLED WowPostAttempt
            /\ pc = "classify" =>
                  (fault = "FailedPost" /\ Len(attempts) = max_tries))
    /\ [](Len(attempts) <= max_tries)
    /\ [][(pc = "classify" /\ fault = "BadLogin" /\ pc' # pc) =>
            (pc' = "cooldown" /\ posted' = posted)]_vars

\* a 500 was retried and the second attempt ended in a 403
WowHttpErrorsWitness ==
    /\ pc = "classify"
    /\ fault = "BadLogin"
    /\ attempts = <<"urlerror", "badlogin">>
    /\ urlopen = HTTPError(403)
    /\ sleeps = 1

\* the messages written for the record with id n
MessagesFor(n) == {syslog[j].msg : j \in {k \in DOMAIN syslog : syslog[k].id = n}}

(* C39: a record's success is in the log exactly when log_success is true,
   its FailedPost exactly when log_failure is true, a BadLogin and an
   unexpected fault whatever the flags are; and each record passed to
   process_record gets one outcome, and at most one message. *)
OutcomeLogging ==
    /\ Len(results) + Cardinality(inflight) = Len(dispatched)
    /\ Cardinality(inflight) <= 1
    /\ \A i \in DOMAIN results :
          MessagesFor(dispatched[i]) =
              CASE results[i] = "none" ->
                      IF log_success THEN {Message("none")} ELSE {}
                [] results[i] = "FailedPost" ->
                      IF log_failure THEN {Message("FailedPost")} ELSE {}
                [] results[i] = "BadLogin" -> {Message("BadLogin")}
                [] OTHER -> {Message("Unexpected")}
    /\ \A j, k \in DOMAIN syslog : syslog[j].id = syslog[k].id => j = k
    /\ \A j \in DOMAIN syslog : syslog[j].id \in Range(dispatched) \ inflight

\* with log_success off and log_failure on, the first record was published
\* without a message and the second failed with one
OutcomeLoggingWitness ==
    /\ ~log_success
    /\ log_failure
    /\ results = <<"none", "FailedPost">>
    /\ syslog = <<[id |-> 2, msg |-> Message("FailedPost")]>>

(* C40: a socket that _get_connect returned is closed before the next pass
   begins and before send_packet returns or raises, whichever way the pass
   ends; and when the reply to a message that was sent cannot be read, the
   message counts as sent: the pass goes on, send_packet returns after the
   second send, and no further pass is made. *)
CwopSockets ==
    /\ [](sock = "open" => (cwStatus = "running" /\ phase \in {"login", "packet", "finally"}))
    /\ [](cwStatus \in {"returned", "raised", "FailedPost"} => sock # "open")
    /\ []((cwStatus = "running" /\ phase \in {"connect", "except"}) => sock # "open")
    /\ [][(phase = "login" /\ recvFailed' /\ phase' # phase) =>
            (phase' = "packet" /\ pending' = "none")]_vars
    /\ [][(phase = "packet" /\ recvFailed' /\ ~recvFailed /\ phase' # phase) =>
            pending' = "return"]_vars
    /\ [][(phase = "finally" /\ pending = "return" /\ phase' # phase) =>
            (cwStatus' = "returned" /\ sock' = "closed" /\ srv' = srv /\ cnt' = cnt)]_vars
    /\ [][cwStatus = "returned" => (cwStatus' = "returned" /\ sock' = sock)]_vars

\* the second server took both messages, no reply could be read, and the
\* socket is closed
CwopSocketsWitness ==
    /\ cwStatus = "returned"
    /\ srv = 2
    /\ recvFailed
    /\ sock = "closed"

====
